---- MODULE Spec2Model ----
(***************************************************************************)
(* A model of rsms/ent: typed entities ("ents") persisted through a        *)
(* storage backend that maintains secondary indexes and checks versions.   *)
(* Both backends are modelled: mem.EntStorage and redis.EntStorage.        *)
(*                                                                         *)
(* Byte strings ([]byte, string) are sequences of byte values 0..255.      *)
(* The entity type is the tutorial's Account:                              *)
(*   name string; displayName string `alias`; email string `unique`;       *)
(*   kind AccountKind(int32) `index`                                       *)
(***************************************************************************)
EXTENDS Integers, Sequences, FiniteSets, TLC

(***************************************************************************)
(* Bounds of the model.                                                    *)
(***************************************************************************)
\* largest value the id generator may reach
MaxId == 2
\* largest version a save may produce
MaxVersion == 3

\* the callers; each owns one Account object and runs one call at a time
Handles == {"h1", "h2"}

\* field values the callers set: "n"
Names == {<<110>>}
\* "", "a" and "b"
Emails == {<<>>, <<97>>, <<98>>}
\* AccountRestricted, AccountMember
Kinds == {0, 1}
\* the email the callers that share one account set: "b"
SharedEmails == {<<98>>}

(***************************************************************************)
(* Text helpers: strconv.FormatUint / ParseUint                            *)
(***************************************************************************)
\* digit d of a base <= 36 number as an ASCII byte: '0'..'9', 'a'..'z'
DigitChar(d) == IF d < 10 THEN 48 + d ELSE 97 + (d - 10)

RECURSIVE BytesLess(_, _)
\* a < b byte by byte: the order of Go strings, and the order Redis sorts
\* members of equal score by
BytesLess(a, b) ==
    IF b = <<>> THEN FALSE
    ELSE IF a = <<>> THEN TRUE
    ELSE IF Head(a) # Head(b) THEN Head(a) < Head(b)
    ELSE BytesLess(Tail(a), Tail(b))

RECURSIVE FormatUint(_, _)
\* strconv.FormatUint(v, base)
FormatUint(v, base) ==
    IF v < base THEN <<DigitChar(v)>>
    ELSE FormatUint(v \div base, base) \o <<DigitChar(v % base)>>

RECURSIVE ParseDigits(_, _, _)
\* value of the decimal digits of s, from the left; -1 when s has a
\* byte that is not a digit of the base
ParseDigits(s, base, acc) ==
    IF s = <<>> THEN acc
    ELSE LET c == Head(s)
             d == IF c >= 48 /\ c <= 57 THEN c - 48
                  ELSE IF c >= 97 /\ c <= 122 THEN c - 97 + 10
                  ELSE 99
         IN IF d >= base THEN -1 ELSE ParseDigits(Tail(s), base, acc * base + d)

\* strconv.ParseUint(s, base, 64): the value, or -1 for a syntax error
ParseUint(s, base) == IF s = <<>> THEN -1 ELSE ParseDigits(s, base, 0)

(***************************************************************************)
(* FieldSet: a bitset over field indices, modelled as the set of the       *)
(* indices of its one-bits.                                                *)
(***************************************************************************)
FieldSetLen(f) == Cardinality(f)
FieldSetHas(f, fieldIndex) == fieldIndex \in f
FieldSetContains(f, other) == (f \cap other) # {}

(***************************************************************************)
(* IdSet: a list of ids treated as a set.                                  *)
(***************************************************************************)
RECURSIVE SplitSpace(_, _)
\* bytes.Split(data, " "): cur is the chunk being collected
SplitSpace(data, cur) ==
    IF data = <<>> THEN <<cur>>
    ELSE IF Head(data) = 32 THEN <<cur>> \o SplitSpace(Tail(data), <<>>)
    ELSE SplitSpace(Tail(data), Append(cur, Head(data)))

ParseIdSet(data) ==
    IF Len(data) > 0
    THEN LET chunks == SplitSpace(data, <<>>)
         IN [i \in 1..Len(chunks) |-> ParseUint(chunks[i], 10)]
    ELSE <<>>

RECURSIVE IdSetEncode(_)
IdSetEncode(s) ==
    IF s = <<>> THEN <<>>
    ELSE IF Len(s) = 1 THEN FormatUint(s[1], 10)
    ELSE FormatUint(s[1], 10) \o <<32>> \o IdSetEncode(Tail(s))

IdSetHas(s, id) == \E i \in 1..Len(s) : s[i] = id

\* an Add that appends whether or not the id is in the set
IdSetAppend(s, id) == Append(s, id)

IdSetAdd(s, id) == IF IdSetHas(s, id) THEN s ELSE Append(s, id)

IdSetDel(s, id) ==
    IF IdSetHas(s, id)
    THEN LET i == CHOOSE j \in 1..Len(s) : s[j] = id /\ \A k \in 1..(j-1) : s[k] # id
         IN SubSeq(s, 1, i - 1) \o SubSeq(s, i + 1, Len(s))
    ELSE s

(***************************************************************************)
(* ScopedMap: map[string][]byte with an optional outer map.  A value is a  *)
(* record: nil is Go's nil slice, json holds the tokens of a JSON document *)
(* (key, value pairs in the order they were written), bytes holds any      *)
(* other byte string.                                                      *)
(***************************************************************************)
Nil == [nil |-> TRUE, json |-> <<>>, bytes |-> <<>>]
BytesValue(b) == [nil |-> FALSE, json |-> <<>>, bytes |-> b]
JsonValue(toks) == [nil |-> FALSE, json |-> toks, bytes |-> <<>>]

\* len(value) of a stored []byte
ValueLen(v) == IF v.nil THEN 0 ELSE IF v.json # <<>> THEN Len(v.json) ELSE Len(v.bytes)

\* the map of a scope that holds no entries
EmptyMap == [k \in {} |-> Nil]

\* ScopedMap.Get on a scope `local` whose outer map is `outer`
ScopedMapGet(local, outer, key) ==
    IF key \in DOMAIN local THEN local[key]
    ELSE IF key \in DOMAIN outer THEN outer[key]
    ELSE Nil

\* ScopedMap.Get on the root map (outer == nil)
RootGet(root, key) == IF key \in DOMAIN root THEN root[key] ELSE Nil

\* ScopedMap.Del on a scope that has an outer map: the key is shadowed by nil
ScopedMapDel(local, key) ==
    [k \in (DOMAIN local) \cup {key} |-> IF k = key THEN Nil ELSE local[k]]

\* ScopedMap.Put on a scope that has an outer map
ScopedMapPut(local, key, value) ==
    IF value.nil THEN ScopedMapDel(local, key)
    ELSE [k \in (DOMAIN local) \cup {key} |-> IF k = key THEN value ELSE local[k]]

\* ScopedMap.Del on the root map: delete(s.m, key)
RootDel(root, key) == [k \in (DOMAIN root) \ {key} |-> root[k]]

\* ScopedMap.Put on the root map
RootPut(root, key, value) ==
    IF value.nil THEN RootDel(root, key)
    ELSE [k \in (DOMAIN root) \cup {key} |-> IF k = key THEN value ELSE root[k]]

\* an ApplyToOuter that passes the puts of the scope on and not its deletes
ApplyToOuterPutsOnly(local, outer) ==
    [k \in (DOMAIN outer) \cup {j \in DOMAIN local : ~local[j].nil}
        |-> IF k \in DOMAIN local /\ ~local[k].nil THEN local[k] ELSE outer[k]]

\* ScopedMap.ApplyToOuter: every entry of the scope, deletes included, is put
\* into the (root) outer map
ApplyToOuter(local, outer) ==
    [k \in {j \in (DOMAIN outer) \cup (DOMAIN local) :
                IF j \in DOMAIN local THEN ~local[j].nil ELSE TRUE}
        |-> IF k \in DOMAIN local THEN local[k] ELSE outer[k]]

(***************************************************************************)
(* The Account ent type (examples/tutorial).                               *)
(***************************************************************************)
\* "account"
EntTypeName == <<97, 99, 99, 111, 117, 110, 116>>

\* field indices
ent_Account_f_name == 0
ent_Account_f_displayName == 1
ent_Account_f_email == 2
ent_Account_f_kind == 3

\* ent_Account_fields.FieldSet (0b1111)
AllFields == {ent_Account_f_name, ent_Account_f_displayName,
              ent_Account_f_email, ent_Account_f_kind}

\* ent_Account_idx: name ("email", "kind"), fields, unique flag
EntIndexes ==
    << [Name |-> <<101, 109, 97, 105, 108>>, Fields |-> {ent_Account_f_email}, unique |-> TRUE],
       [Name |-> <<107, 105, 110, 100>>, Fields |-> {ent_Account_f_kind}, unique |-> FALSE] >>

\* EntIndex.IsUnique
IsUnique(x) == x.unique

\* &Account{name: .., email: .., kind: ..}: an ent that is not stored
NewAccount(name, email, kind) ==
    [id |-> 0, version |-> 0, storage |-> FALSE, fieldmap |-> {},
     name |-> name, displayName |-> <<>>, email |-> email, kind |-> kind]

(***************************************************************************)
(* Ents of other types.  Ent is an interface: EntTypeName, EntNew,         *)
(* EntFields, EntIndexes, EntEncode and EntDecodePartial are methods of    *)
(* the ent the storage is handed.  An ent of a type other than Account is  *)
(* a record that holds, beside the EntBase, the name of its type, its      *)
(* fields in the order of declaration (field index i is fields[i + 1]) and *)
(* its indexes.                                                            *)
(***************************************************************************)
NewEnt(typeName, fields, idx) ==
    [id |-> 0, version |-> 0, storage |-> FALSE, fieldmap |-> {},
     typeName |-> typeName, fields |-> fields, idx |-> idx]

IsAccount(e) == "email" \in DOMAIN e

\* e.EntTypeName()
EntTypeNameOf(e) == IF IsAccount(e) THEN EntTypeName ELSE e.typeName

\* e.EntIndexes()
EntIndexesOf(e) == IF IsAccount(e) THEN EntIndexes ELSE e.idx

\* e.EntFields().FieldSet
EntFieldsOf(e) == IF IsAccount(e) THEN AllFields ELSE {i - 1 : i \in 1..Len(e.fields)}

RECURSIVE SelectFields(_, _, _)
\* the fields of e that are in the field set, in the order of declaration
SelectFields(e, fields, i) ==
    IF i > Len(e.fields) THEN <<>>
    ELSE (IF FieldSetHas(fields, i - 1) THEN <<e.fields[i]>> ELSE <<>>)
         \o SelectFields(e, fields, i + 1)

\* the index of the field of this name
FieldIndex(e, name) == CHOOSE i \in EntFieldsOf(e) : e.fields[i + 1].name = name

\* the fields that take part in an index: "field.storageIndex != nil"
IndexedFields(e) == UNION {EntIndexesOf(e)[i].Fields : i \in 1..Len(EntIndexesOf(e))}

\* Account.EntEncode: the (key, value) calls made on the encoder
AccountEntEncode(e, fields) ==
    (IF FieldSetHas(fields, ent_Account_f_name) THEN << <<"name", e.name>> >> ELSE <<>>)
    \o (IF FieldSetHas(fields, ent_Account_f_displayName) THEN << <<"alias", e.displayName>> >> ELSE <<>>)
    \o (IF FieldSetHas(fields, ent_Account_f_email) THEN << <<"email", e.email>> >> ELSE <<>>)
    \o (IF FieldSetHas(fields, ent_Account_f_kind) THEN << <<"kind", e.kind>> >> ELSE <<>>)

\* e.EntEncode(c, fields).  For an ent of another type a call is <<"f", field>>,
\* the field holding its name and its value
EntEncode(e, fields) ==
    IF IsAccount(e) THEN AccountEntEncode(e, fields)
    ELSE LET fs == SelectFields(e, fields, 1) IN [i \in 1..Len(fs) |-> <<"f", fs[i]>>]

\* JsonEncodeEnt: {"_ver": version, "_id": id, fields...}
JsonEncodeEnt(e, id, version, fieldmap) ==
    JsonValue(<< <<"_ver", version>>, <<"_id", id>> >> \o EntEncode(e, fieldmap))

RECURSIVE EntDecodeLoop(_, _, _)
\* Account.EntDecode: r holds the ent being populated and the id and version
\* read so far
EntDecodeLoop(r, toks, i) ==
    IF i > Len(toks) THEN r
    ELSE LET k == toks[i][1]
             v == toks[i][2]
         IN EntDecodeLoop(
              IF k = "_id" THEN [r EXCEPT !.id = v]
              ELSE IF k = "_ver" THEN [r EXCEPT !.version = v]
              ELSE IF k = "name" THEN [r EXCEPT !.e.name = v]
              ELSE IF k = "alias" THEN [r EXCEPT !.e.displayName = v]
              ELSE IF k = "email" THEN [r EXCEPT !.e.email = v]
              ELSE IF k = "kind" THEN [r EXCEPT !.e.kind = v]
              ELSE r,
              toks, i + 1)

RECURSIVE GenEntDecodeLoop(_, _, _)
\* the EntDecode genEntDecode writes for a type: a case for the id, one for
\* the version and one for each field
GenEntDecodeLoop(r, toks, i) ==
    IF i > Len(toks) THEN r
    ELSE LET k == toks[i][1]
             v == toks[i][2]
         IN GenEntDecodeLoop(
              IF k = "_id" THEN [r EXCEPT !.id = v]
              ELSE IF k = "_ver" THEN [r EXCEPT !.version = v]
              ELSE IF k = "f" THEN [r EXCEPT !.e.fields[FieldIndex(r.e, v.name) + 1] = v]
              ELSE r,
              toks, i + 1)

\* JsonDecodeEnt(e, data): [e, id, version]
JsonDecodeEnt(e, data) ==
    IF IsAccount(e) THEN EntDecodeLoop([e |-> e, id |-> 0, version |-> 0], data.json, 1)
    ELSE GenEntDecodeLoop([e |-> e, id |-> 0, version |-> 0], data.json, 1)

RECURSIVE EntDecodePartialLoop(_, _, _, _, _)
\* Account.EntDecodePartial: n counts the indexed fields not yet seen; the
\* loop ends when it reaches 0 or the keys run out
EntDecodePartialLoop(r, toks, i, n, fields) ==
    IF n <= 0 \/ i > Len(toks) THEN r
    ELSE LET k == toks[i][1]
             v == toks[i][2]
         IN IF k = "_ver" THEN EntDecodePartialLoop([r EXCEPT !.version = v], toks, i + 1, n, fields)
            ELSE IF k = "email"
            THEN EntDecodePartialLoop(
                   IF FieldSetHas(fields, ent_Account_f_email) THEN [r EXCEPT !.e.email = v] ELSE r,
                   toks, i + 1, n - 1, fields)
            ELSE IF k = "kind"
            THEN EntDecodePartialLoop(
                   IF FieldSetHas(fields, ent_Account_f_kind) THEN [r EXCEPT !.e.kind = v] ELSE r,
                   toks, i + 1, n - 1, fields)
            ELSE EntDecodePartialLoop(r, toks, i + 1, n, fields)

\* number of indexed fields of Account: the start value of n
NumIndexedFields == 2

RECURSIVE GenEntDecodePartialLoop(_, _, _, _, _)
\* the EntDecodePartial genEntDecodePartial writes for a type: "for n :=
\* len(indexedFields); n > 0;" with a case for the version and one for each
\* indexed field; every other key is discarded
GenEntDecodePartialLoop(r, toks, i, n, fields) ==
    IF n <= 0 \/ i > Len(toks) THEN r
    ELSE LET k == toks[i][1]
             v == toks[i][2]
         IN IF k = "_ver"
            THEN GenEntDecodePartialLoop([r EXCEPT !.version = v], toks, i + 1, n, fields)
            ELSE IF k = "f" /\ FieldIndex(r.e, v.name) \in IndexedFields(r.e)
            THEN GenEntDecodePartialLoop(
                   IF FieldSetHas(fields, FieldIndex(r.e, v.name))
                   THEN [r EXCEPT !.e.fields[FieldIndex(r.e, v.name) + 1] = v] ELSE r,
                   toks, i + 1, n - 1, fields)
            ELSE GenEntDecodePartialLoop(r, toks, i + 1, n, fields)

\* JsonDecodeEntPartial(e, data, fields) for data that holds a document: [e, version]
JsonDecodeEntPartial(e, data, fields) ==
    IF IsAccount(e)
    THEN EntDecodePartialLoop([e |-> e, version |-> 0], data.json, 1, NumIndexedFields, fields)
    ELSE GenEntDecodePartialLoop([e |-> e, version |-> 0], data.json, 1,
                                 Cardinality(IndexedFields(e)), fields)

(***************************************************************************)
(* IndexKeyEncoder                                                         *)
(***************************************************************************)
\* writeUint32BE(uint32(v))
Uint32BE(v) ==
    << (v \div 16777216) % 256, (v \div 65536) % 256, (v \div 256) % 256, v % 256 >>

\* the bytes IndexKeyEncoder writes for one (key, value) call when nfields == 1:
\* Str writes the string, Int(v, 32) writes four big-endian bytes
IndexKeyScalar(tok) == IF tok[1] = "kind" THEN Uint32BE(tok[2]) ELSE tok[2]

RECURSIVE IndexKeyConcat(_)
IndexKeyConcat(toks) ==
    IF toks = <<>> THEN <<>> ELSE IndexKeyScalar(Head(toks)) \o IndexKeyConcat(Tail(toks))

\* the key IndexKeyEncoder.EncodeKey returns for an Account and an index on
\* one field
AccountKey(e, fields) == IndexKeyConcat(AccountEntEncode(e, fields))

(***************************************************************************)
(* IndexKeyEncoder call by call.  The encoder is a record: b the buffer,   *)
(* err the first error set, nest the depth of open lists and dicts,        *)
(* nfields the number of fields of the index, keys and values the pairs    *)
(* collected for a compound key.  Strings are byte sequences.              *)
(***************************************************************************)
\* IndexKeyEncoder.Reset(nfields) on a new encoder
IndexKeyEncoderReset(nfields) ==
    [b |-> <<>>, err |-> "ok", nest |-> 0, nfields |-> nfields, keys |-> <<>>, values |-> <<>>]

\* IndexKeyEncoder.setErr: the first error is kept
IndexKeyEncoderSetErr(c, err) == IF c.err = "ok" THEN [c EXCEPT !.err = err] ELSE c

RECURSIVE EscapeFF(_)
\* strings.ReplaceAll(v, "\xff", "\\xff")
EscapeFF(v) ==
    IF v = <<>> THEN <<>>
    ELSE (IF Head(v) = 255 THEN <<92, 120, 102, 102>> ELSE <<Head(v)>>) \o EscapeFF(Tail(v))

\* "for _, c := range v { if c == '\xff' {": the range decodes v as UTF-8 and
\* compares each code point with U+00FF, whose encoding is the two bytes 0xC3
\* 0xBF; a byte 0xFF is no valid UTF-8 and decodes to U+FFFD
HasRuneFF(v) == \E i \in 1..(Len(v) - 1) : v[i] = 195 /\ v[i + 1] = 191

\* the value Str collects for a compound key: the bytes 0xFF are replaced
\* only if the loop found the code point U+00FF
EscapedValue(v) == IF HasRuneFF(v) THEN EscapeFF(v) ELSE v

\* the bytes Uint(v, bitsize) writes for a single-field key: big-endian
UintBE(v, bitsize) ==
    IF bitsize = 8 THEN <<v % 256>>
    ELSE IF bitsize = 16 THEN <<(v \div 256) % 256, v % 256>>
    ELSE IF bitsize = 32 THEN Uint32BE(v)
    ELSE <<0, 0, 0, 0>> \o Uint32BE(v)

\* one call on the encoder: Key, Str and Blob (the string in call.v), Int and
\* Uint (the number, not negative in the model, in call.n), BeginList,
\* EndList, BeginDict, EndDict
IndexKeyEncoderCall(c, call) ==
    IF call.op = "Key"
    THEN IF c.nest = 0
         THEN IF c.nfields > 1 THEN [c EXCEPT !.keys = Append(@, call.v)] ELSE c
         ELSE [c EXCEPT !.b = @ \o call.v \o <<58>>]
    ELSE IF call.op = "Str"
    THEN IF c.nfields = 1 /\ c.nest = 0
         THEN [c EXCEPT !.b = @ \o call.v]
         ELSE [c EXCEPT !.values = Append(@, EscapedValue(call.v))]
    ELSE IF call.op = "Blob"
    THEN IF c.nfields = 1 /\ c.nest = 0
         THEN [c EXCEPT !.b = @ \o call.v]
         ELSE IndexKeyEncoderSetErr(c, "can't index nested blobs")
    ELSE IF call.op \in {"Int", "Uint"}
    THEN IF c.nfields = 1 /\ c.nest = 0
         THEN [c EXCEPT !.b = @ \o UintBE(call.n, call.bitsize)]
         ELSE [c EXCEPT !.values = Append(@, FormatUint(call.n, 36))]
    ELSE IF call.op = "BeginList"
    THEN [IndexKeyEncoderSetErr(c, "can't index lists") EXCEPT !.nest = @ + 1]
    ELSE IF call.op = "BeginDict"
    THEN [IndexKeyEncoderSetErr(c, "can't index dicts") EXCEPT !.nest = @ + 1]
    ELSE [c EXCEPT !.nest = @ - 1]

RECURSIVE IndexKeyEncoderCalls(_, _)
\* the calls an EntEncode or a key encoder function makes, in order
IndexKeyEncoderCalls(c, calls) ==
    IF calls = <<>> THEN c
    ELSE IndexKeyEncoderCalls(IndexKeyEncoderCall(c, Head(calls)), Tail(calls))

RECURSIVE SortedPairs(_, _)
\* sort.Sort((*keysValuesSort)(c)): the (key, value) pairs by ascending key
SortedPairs(keys, values) ==
    IF keys = <<>> THEN <<>>
    ELSE LET i == CHOOSE j \in 1..Len(keys) :
                     \A k \in 1..Len(keys) :
                        ~BytesLess(keys[k], keys[j]) /\ (keys[k] = keys[j] => j <= k)
             Drop(s) == SubSeq(s, 1, i - 1) \o SubSeq(s, i + 1, Len(s))
         IN << <<keys[i], values[i]>> >> \o SortedPairs(Drop(keys), Drop(values))

RECURSIVE JoinPairs(_)
\* key 0xFF value, the pairs separated by 0xFF
JoinPairs(pairs) ==
    IF pairs = <<>> THEN <<>>
    ELSE Head(pairs)[1] \o <<255>> \o Head(pairs)[2]
         \o (IF Len(pairs) > 1 THEN <<255>> \o JoinPairs(Tail(pairs)) ELSE <<>>)

\* a flush that writes the pairs in the order they were collected
IndexKeyEncoderFlushUnsorted(c) ==
    IF Len(c.values) = 0 THEN c
    ELSE IF Len(c.values) = 1 THEN [c EXCEPT !.b = @ \o c.values[1]]
    ELSE IF Len(c.keys) # Len(c.values) THEN IndexKeyEncoderSetErr(c, "unbalanced key-value")
    ELSE [c EXCEPT !.b = @ \o JoinPairs([i \in 1..Len(c.keys) |-> <<c.keys[i], c.values[i]>>])]

\* IndexKeyEncoder.flush
IndexKeyEncoderFlush(c) ==
    IF Len(c.values) = 0 THEN c
    ELSE IF Len(c.values) = 1 THEN [c EXCEPT !.b = @ \o c.values[1]]
    ELSE IF Len(c.keys) # Len(c.values) THEN IndexKeyEncoderSetErr(c, "unbalanced key-value")
    ELSE [c EXCEPT !.b = @ \o JoinPairs(SortedPairs(c.keys, c.values))]

\* IndexKeyEncoder.EndEnt
IndexKeyEncoderEndEnt(c) == IF c.nfields > 1 /\ c.err = "ok" THEN IndexKeyEncoderFlush(c) ELSE c

\* "c.Reset(nfields); keyEncoder(&c); c.EndEnt()": the encoder at the end
IndexKeyEncode(nfields, calls) ==
    IndexKeyEncoderEndEnt(IndexKeyEncoderCalls(IndexKeyEncoderReset(nfields), calls))

(***************************************************************************)
(* The calls a generated EntEncode makes on an encoder, field by field.    *)
(***************************************************************************)
\* Fields as examples/mem's Account has them: "w" and "h" (int), "name"
\* (string), "data" ([]byte), "foo" ([]int) and "things" (map[string]int).
\* A field is a record of its name, its type and its value: int holds the
\* number, bytes the string, list the elements, dict the keys and values
KeyField(name, type, int, bytes, list, dict) ==
    [name |-> name, type |-> type, int |-> int, bytes |-> bytes, list |-> list, dict |-> dict]

IntField(name, v) == KeyField(name, "int", v, <<>>, <<>>, <<>>)
StrField(name, v) == KeyField(name, "str", 0, v, <<>>, <<>>)

EncoderCall(op, v, n, bitsize) == [op |-> op, v |-> v, n |-> n, bitsize |-> bitsize]

RECURSIVE ListCalls(_)
\* ent_encode_Vi00: the elements of a []int
ListCalls(v) ==
    IF v = <<>> THEN <<>> ELSE <<EncoderCall("Int", <<>>, Head(v), 64)>> \o ListCalls(Tail(v))

RECURSIVE DictCalls(_)
\* ent_encode_Msi00: the keys and values of a map[string]int
DictCalls(v) ==
    IF v = <<>> THEN <<>>
    ELSE <<EncoderCall("Key", Head(v).k, 0, 0), EncoderCall("Int", <<>>, Head(v).v, 64)>>
         \o DictCalls(Tail(v))

\* the calls EntEncode makes for one field
FieldCalls(f) ==
    <<EncoderCall("Key", f.name, 0, 0)>>
    \o (IF f.type = "int" THEN <<EncoderCall("Int", <<>>, f.int, 64)>>
        ELSE IF f.type = "str" THEN <<EncoderCall("Str", f.bytes, 0, 0)>>
        ELSE IF f.type = "blob" THEN <<EncoderCall("Blob", f.bytes, 0, 0)>>
        ELSE IF f.type = "list"
        THEN <<EncoderCall("BeginList", <<>>, Len(f.list), 0)>> \o ListCalls(f.list)
             \o <<EncoderCall("EndList", <<>>, 0, 0)>>
        ELSE <<EncoderCall("BeginDict", <<>>, Len(f.dict), 0)>> \o DictCalls(f.dict)
             \o <<EncoderCall("EndDict", <<>>, 0, 0)>>)

RECURSIVE FieldsCalls(_)
FieldsCalls(fs) == IF fs = <<>> THEN <<>> ELSE FieldCalls(Head(fs)) \o FieldsCalls(Tail(fs))

\* IndexKeyEncoder.EncodeKey(e, fields) of such an ent: the encoder after
\* EndEnt, b the key and err the error
EntEncodeKey(e, fields) ==
    IndexKeyEncode(FieldSetLen(fields), FieldsCalls(SelectFields(e, fields, 1)))

\* the key EncodeKey returns
EncodeKey(e, fields) == IF IsAccount(e) THEN AccountKey(e, fields) ELSE EntEncodeKey(e, fields).b

\* the error EncodeKey returns: no field of Account's indexes is a list, a
\* dict or a blob
EncodeKeyErr(e, fields) == IF IsAccount(e) THEN "ok" ELSE EntEncodeKey(e, fields).err

(***************************************************************************)
(* mem.EntStorage: keys and index reads                                    *)
(***************************************************************************)
\* EntStorage.entKey: type ":" id in base 36
entKey(entTypeName, id) == entTypeName \o <<58>> \o FormatUint(id, 36)

\* EntStorage.indexKey: type "#" index ":" key
indexKey(entTypeName, indexName, key) == entTypeName \o <<35>> \o indexName \o <<58>> \o key

\* EntStorage.indexGet: the ids stored under an index key of the root map
indexGet(root, entTypeName, indexName, key) ==
    LET value == RootGet(root, indexKey(entTypeName, indexName, key))
    IN IF ValueLen(value) = 0 THEN <<>> ELSE ParseIdSet(value.bytes)

(***************************************************************************)
(* ComputeIndexEdits.  An optional ent is <<>> (nil) or <<e>>.  hasIndexGet*)
(* is FALSE when the caller passes a nil indexGet.                          *)
(***************************************************************************)
\* "pick any ent for read-only operations"
RoEnt(prevEnt, nextEnt) == IF nextEnt # <<>> THEN nextEnt[1] ELSE prevEnt[1]

\* a cleanup that deletes the key whenever at most one id would be left
CleanupValueAtMostOne(x, ids, id) ==
    IF IsUnique(x) \/ Len(IdSetDel(ids, id)) <= 1 THEN <<>> ELSE IdSetDel(ids, id)

\* the Value of the cleanup edit: "if isUnique || len(ids) == 1 { ids = nil }
\* else { ids.Del(id) }", ids being what indexGet returned for the old key
CleanupValue(x, ids, id) ==
    IF IsUnique(x) \/ Len(ids) = 1 THEN <<>> ELSE IdSetDel(ids, id)

\* a loop body without the "identical keys? skip index changes" test
IndexEditsOfNoSkip(hasIndexGet, root, prevEnt, nextEnt, id, x) ==
    LET prevValueKey == IF prevEnt # <<>> THEN EncodeKey(prevEnt[1], x.Fields) ELSE <<>>
        nextValueKey == IF nextEnt # <<>> THEN EncodeKey(nextEnt[1], x.Fields) ELSE <<>>
        prevIds == IF hasIndexGet THEN indexGet(root, EntTypeNameOf(RoEnt(prevEnt, nextEnt)), x.Name, prevValueKey) ELSE <<>>
    IN (IF prevValueKey # <<>> /\ (Len(prevIds) > 0 \/ ~hasIndexGet)
        THEN << [Index |-> x, Key |-> prevValueKey,
                 Value |-> CleanupValue(x, prevIds, id),
                 IsCleanup |-> TRUE] >>
        ELSE <<>>)
       \o (IF nextValueKey # <<>>
           THEN << [Index |-> x, Key |-> nextValueKey,
                    Value |-> IF IsUnique(x) THEN <<id>>
                              ELSE IdSetAdd(IF hasIndexGet
                                            THEN indexGet(root, EntTypeNameOf(RoEnt(prevEnt, nextEnt)), x.Name, nextValueKey)
                                            ELSE <<>>, id),
                    IsCleanup |-> FALSE] >>
           ELSE <<>>)

\* the rest of the loop body, from "isUnique := x.IsUnique()", the two keys
\* having been encoded
IndexEditsOfKeys(hasIndexGet, root, entTypeName, id, x, prevValueKey, nextValueKey) ==
    LET prevIds == IF hasIndexGet THEN indexGet(root, entTypeName, x.Name, prevValueKey) ELSE <<>>
        cleanup ==
            IF prevValueKey # <<>> /\ (Len(prevIds) > 0 \/ ~hasIndexGet)
            THEN << [Index |-> x, Key |-> prevValueKey,
                     Value |-> CleanupValue(x, prevIds, id),
                     IsCleanup |-> TRUE] >>
            ELSE <<>>
        nextIds == IF IsUnique(x) THEN <<id>>
                   ELSE IdSetAdd(IF hasIndexGet
                                 THEN indexGet(root, entTypeName, x.Name, nextValueKey)
                                 ELSE <<>>, id)
        insert ==
            IF nextValueKey # <<>>
            THEN << [Index |-> x, Key |-> nextValueKey, Value |-> nextIds, IsCleanup |-> FALSE] >>
            ELSE <<>>
    IN IF prevValueKey # <<>> /\ prevValueKey = nextValueKey THEN <<>>
       ELSE cleanup \o insert

\* the edits the loop body appends for index x
IndexEditsOf(hasIndexGet, root, prevEnt, nextEnt, id, x) ==
    IndexEditsOfKeys(hasIndexGet, root, EntTypeNameOf(RoEnt(prevEnt, nextEnt)), id, x,
                     IF prevEnt # <<>> THEN EncodeKey(prevEnt[1], x.Fields) ELSE <<>>,
                     IF nextEnt # <<>> THEN EncodeKey(nextEnt[1], x.Fields) ELSE <<>>)

RECURSIVE ComputeIndexEditsLoop(_, _, _, _, _, _, _)
\* "for each index...": i is the position in roEnt.EntIndexes()
ComputeIndexEditsLoop(hasIndexGet, root, prevEnt, nextEnt, id, changedFields, i) ==
    LET indexes == EntIndexesOf(RoEnt(prevEnt, nextEnt))
    IN IF i > Len(indexes) THEN <<>>
       ELSE (IF ~FieldSetContains(changedFields, indexes[i].Fields) THEN <<>>
             ELSE IndexEditsOf(hasIndexGet, root, prevEnt, nextEnt, id, indexes[i]))
            \o ComputeIndexEditsLoop(hasIndexGet, root, prevEnt, nextEnt, id, changedFields, i + 1)

\* "if prevEnt == nil { changedFields = roEnt.EntFields().FieldSet }"
ChangedFields(prevEnt, nextEnt, changedFields) ==
    IF prevEnt = <<>> THEN EntFieldsOf(RoEnt(prevEnt, nextEnt)) ELSE changedFields

\* "if err != nil { return nil, err }": the first of two errors
FirstErr(err, later) == IF err # "ok" THEN err ELSE later

RECURSIVE EncodeKeysErr(_, _, _, _)
\* the first error EncodeKey returns in the loop: for each index that is not
\* skipped the key of prevEnt is encoded, then that of nextEnt
EncodeKeysErr(prevEnt, nextEnt, changedFields, i) ==
    IF i > Len(EntIndexesOf(RoEnt(prevEnt, nextEnt))) THEN "ok"
    ELSE IF ~FieldSetContains(changedFields, EntIndexesOf(RoEnt(prevEnt, nextEnt))[i].Fields)
    THEN EncodeKeysErr(prevEnt, nextEnt, changedFields, i + 1)
    ELSE FirstErr(IF prevEnt # <<>>
                  THEN EncodeKeyErr(prevEnt[1],
                                    EntIndexesOf(RoEnt(prevEnt, nextEnt))[i].Fields)
                  ELSE "ok",
                  FirstErr(IF nextEnt # <<>>
                           THEN EncodeKeyErr(nextEnt[1],
                                             EntIndexesOf(RoEnt(prevEnt, nextEnt))[i].Fields)
                           ELSE "ok",
                           EncodeKeysErr(prevEnt, nextEnt, changedFields, i + 1)))

\* the error ComputeIndexEdits returns
ComputeIndexEditsErr(prevEnt, nextEnt, changedFields) ==
    IF prevEnt # <<>> /\ EntTypeNameOf(prevEnt[1]) # EntTypeNameOf(RoEnt(prevEnt, nextEnt))
    THEN "different ent types"
    ELSE EncodeKeysErr(prevEnt, nextEnt, ChangedFields(prevEnt, nextEnt, changedFields), 1)

\* a ComputeIndexEdits that takes changedFields as passed, on creation too
ComputeIndexEditsAsPassed(hasIndexGet, root, prevEnt, nextEnt, id, changedFields) ==
    ComputeIndexEditsLoop(hasIndexGet, root, prevEnt, nextEnt, id, changedFields, 1)

\* a ComputeIndexEdits that returns the edits it has when a key is rejected
ComputeIndexEditsKeepsEdits(hasIndexGet, root, prevEnt, nextEnt, id, changedFields) ==
    ComputeIndexEditsLoop(hasIndexGet, root, prevEnt, nextEnt, id,
                          ChangedFields(prevEnt, nextEnt, changedFields), 1)

\* ComputeIndexEdits(indexGet, prevEnt, nextEnt, id, changedFields): the edits,
\* nil with an error
ComputeIndexEdits(hasIndexGet, root, prevEnt, nextEnt, id, changedFields) ==
    IF ComputeIndexEditsErr(prevEnt, nextEnt, changedFields) # "ok" THEN <<>>
    ELSE ComputeIndexEditsLoop(hasIndexGet, root, prevEnt, nextEnt, id,
                               ChangedFields(prevEnt, nextEnt, changedFields), 1)

(***************************************************************************)
(* mem.EntStorage.updateIndexes                                            *)
(***************************************************************************)
RECURSIVE ApplyIndexEdits(_, _, _, _, _, _)
\* the loop over the edits: scope is the transaction's map, root is s.m.
\* The result is [err, scope].
ApplyIndexEdits(entType, edits, i, id, root, scope) ==
    IF i > Len(edits) THEN [err |-> "ok", scope |-> scope]
    ELSE LET ed == edits[i]
             key == indexKey(entType, ed.Index.Name, ed.Key)
             ids == indexGet(root, entType, ed.Index.Name, ed.Key)
         IN IF Len(ed.Value) = 0
            THEN ApplyIndexEdits(entType, edits, i + 1, id, root, ScopedMapDel(scope, key))
            ELSE IF ~ed.IsCleanup /\ IsUnique(ed.Index) /\ Len(ids) > 0
            THEN IF ids[1] = id
                 THEN ApplyIndexEdits(entType, edits, i + 1, id, root, scope)
                 ELSE [err |-> "UniqueConflict", scope |-> scope]
            ELSE ApplyIndexEdits(entType, edits, i + 1, id, root,
                                 ScopedMapPut(scope, key, BytesValue(IdSetEncode(ed.Value))))

\* "if err != nil { return err }", then the loop over the edits
ApplyIndexEditsUnlessErr(err, entType, edits, id, root, scope) ==
    IF err # "ok" THEN [err |-> err, scope |-> scope]
    ELSE ApplyIndexEdits(entType, edits, 1, id, root, scope)

\* EntStorage.updateIndexes(prevEnt, nextEnt, id, fieldmap, m): [err, scope]
updateIndexes(root, prevEnt, nextEnt, id, fieldmap, scope) ==
    ApplyIndexEditsUnlessErr(ComputeIndexEditsErr(prevEnt, nextEnt, fieldmap),
                             IF prevEnt # <<>> THEN EntTypeNameOf(prevEnt[1])
                             ELSE EntTypeNameOf(nextEnt[1]),
                             ComputeIndexEdits(TRUE, root, prevEnt, nextEnt, id, fieldmap),
                             id, root, scope)

(***************************************************************************)
(* State.                                                                  *)
(***************************************************************************)
VARIABLES
    idgen,   \* mem: EntStorage.idgen; redis: the counter HINCRBY entid <type> keeps
    mu,      \* EntStorage.mu: the caller that holds the write lock, or NoOwner
    m,       \* mem: EntStorage.m, the root map; redis: the keyspace of the server
    ent,     \* ent[h]: the ent object of caller h (EntBase and fields)
    pc,      \* pc[h]: where caller h is in its call: "idle", "put", "locked", "exec",
             \* "forked", "applied" (putEnt step by step), "iter" (in an iteration),
             \* "root", "scope", "done" (ScopedMap), "args", "returned" (a
             \* function called on its own)
    call,    \* call[h]: the locals of the putEnt or delete call h runs
    res,     \* res[h]: the storage call h made last and the error it returned
    handed,  \* the ids Create has taken from idgen, in order
    program  \* what the callers run: "own" (each its own accounts), "shared", "redis",
             \* "readers" or "redisreaders" (one caller writes, the other looks up),
             \* "scopedmap" (a ScopedMap and a scope on their own), "edits" or
             \* "editsnil" (ComputeIndexEdits on its own), "idset" (an IdSet),
             \* "indexkey" (IndexKeyEncoder on its own), "entedits" or
             \* "enteditsnil" (ComputeIndexEdits on ents of other types),
             \* "enttypes" (a storage of ents of other types), "iterids"
             \* (iterators over a storage with ids of 10 and above),
             \* "compoundkey" (compound keys of strings with the byte 0xFF)

vars == <<idgen, mu, m, ent, pc, call, res, handed, program>>

NoOwner == "none"

\* the locals of a caller that runs no call
\* scope is the map of the transaction putEnt forks from s.m; ids and ents are
\* the results of the index lookup the caller made last; it is the caller's
\* iterator, whose slice of ids is the first it.len elements of it.ids
NoCall == [op |-> "none", id |-> 0, version |-> 0, changedFields |-> {},
           json |-> Nil, prevEnt |-> <<>>,
           cmds |-> <<>>, watchKeys |-> {}, dirty |-> FALSE,
           scope |-> EmptyMap, ids |-> <<>>, ents |-> <<>>,
           it |-> [ids |-> <<>>, len |-> 0, cursor |-> FALSE, err |-> "ok"]]

\* no storage call has returned since the caller last touched its ent.  retry
\* says that the caller is in the README's "Reload and retry": its save
\* returned ErrVersionConflict and it has reloaded since
NoRes == [op |-> "none", err |-> "ok", retry |-> FALSE]

\* the caller touches its ent
Touched(r) == [NoRes EXCEPT !.retry = r.retry /\ r.op \in {"none", "reload"}]

\* the zero Account: EntNew(), &Account{}
ZeroAccount == NewAccount(<<>>, <<>>, 0)

\* e.EntNew(): a zero ent of the type of e
EntNewOf(e) ==
    IF IsAccount(e) THEN ZeroAccount
    ELSE NewEnt(e.typeName,
                [i \in 1..Len(e.fields) |->
                    [e.fields[i] EXCEPT !.int = 0, !.bytes = <<>>, !.list = <<>>, !.dict = <<>>]],
                e.idx)

\* a new storage and callers that hold zero Accounts
Init ==
    /\ idgen = 0
    /\ mu = NoOwner
    /\ m = EmptyMap
    /\ ent = [h \in Handles |-> ZeroAccount]
    /\ pc = [h \in Handles |-> "idle"]
    /\ call = [h \in Handles |-> NoCall]
    /\ res = [h \in Handles |-> NoRes]
    /\ handed = <<>>
    /\ program = "own"

\* a read lock that does not wait for the writer
NoReadLock(owner) == TRUE

\* a lock that excludes nobody
NoLock(owner) == TRUE

\* s.mu.Lock() and s.mu.RLock() return only while no writer holds the lock
MuFree(owner) == owner = NoOwner

\* the caller's result of a storage call that has returned
Return(h, op, err) ==
    res' = [res EXCEPT ![h] =
        [op |-> op, err |-> err,
         retry |-> IF op = "reload"
                   THEN err = "ok" /\ @.op = "save" /\ @.err = "VersionConflict"
                   ELSE op = "save" /\ @.retry /\ @.op \in {"none", "reload"}]]

(***************************************************************************)
(* The caller's side: constructing an ent and the generated setters.       *)
(***************************************************************************)
\* h := &Account{}
New(h) ==
    /\ pc[h] = "idle"
    /\ ent[h] # ZeroAccount
    /\ ent' = [ent EXCEPT ![h] = ZeroAccount]
    /\ res' = [res EXCEPT ![h] = NoRes]
    /\ UNCHANGED <<idgen, mu, m, pc, call, handed, program>>

\* SetFieldChanged
SetFieldChanged(e, fieldIndex) == [e EXCEPT !.fieldmap = @ \cup {fieldIndex}]

SetName(h, v) ==
    /\ pc[h] = "idle"
    /\ ent' = [ent EXCEPT ![h] = SetFieldChanged([@ EXCEPT !.name = v], ent_Account_f_name)]
    /\ res' = [res EXCEPT ![h] = Touched(@)]
    /\ UNCHANGED <<idgen, mu, m, pc, call, handed, program>>

SetEmail(h, v) ==
    /\ pc[h] = "idle"
    /\ ent' = [ent EXCEPT ![h] = SetFieldChanged([@ EXCEPT !.email = v], ent_Account_f_email)]
    /\ res' = [res EXCEPT ![h] = Touched(@)]
    /\ UNCHANGED <<idgen, mu, m, pc, call, handed, program>>

SetKind(h, v) ==
    /\ pc[h] = "idle"
    /\ ent' = [ent EXCEPT ![h] = SetFieldChanged([@ EXCEPT !.kind = v], ent_Account_f_kind)]
    /\ res' = [res EXCEPT ![h] = Touched(@)]
    /\ UNCHANGED <<idgen, mu, m, pc, call, handed, program>>

(***************************************************************************)
(* EntStorage.putEnt                                                       *)
(***************************************************************************)
\* a version check that accepts every version
NoVersionCheck(expectVersion, currentVersion) == FALSE

\* "if expectVersion != currentVersion"
VersionDiffers(expectVersion, currentVersion) == expectVersion # currentVersion

\* "load & verify that the current version is what we are expecting":
\* [err, prevEnt]
CheckVersion(root, e, id, changedFields) ==
    LET prevData == RootGet(root, entKey(EntTypeNameOf(e), id))
        r == JsonDecodeEntPartial(EntNewOf(e), prevData, changedFields)
    IN IF e.version # 0 /\ ~prevData.nil
       THEN IF VersionDiffers(e.version, r.version)
            THEN [err |-> "VersionConflict", prevEnt |-> <<>>]
            ELSE [err |-> "ok", prevEnt |-> <<r.e>>]
       ELSE [err |-> "ok", prevEnt |-> <<>>]

\* putEnt from "encode" to the version check, s.mu.Lock() included: the
\* caller returns the error or goes on holding the lock
PutBegin(h, op, id, version, changedFields) ==
    /\ MuFree(mu)
    /\ LET r == CheckVersion(m, ent[h], id, changedFields)
       IN IF r.err # "ok"
          THEN /\ Return(h, op, r.err)
               /\ pc' = [pc EXCEPT ![h] = "idle"]
               /\ call' = [call EXCEPT ![h] = NoCall]
               /\ UNCHANGED mu
          ELSE /\ mu' = h
               /\ pc' = [pc EXCEPT ![h] = "locked"]
               /\ call' = [call EXCEPT ![h] =
                     [NoCall EXCEPT !.op = op, !.id = id, !.version = version,
                                    !.changedFields = changedFields,
                                    !.json = JsonEncodeEnt(ent[h], id, version, EntFieldsOf(ent[h])),
                                    !.prevEnt = r.prevEnt]]
               /\ UNCHANGED res

\* a putEnt that commits although updateIndexes returned an error
PutEndNoRollback(root, prevEnt, e, id, changedFields, json) ==
    LET r == updateIndexes(root, prevEnt, <<e>>, id, changedFields, EmptyMap)
    IN [err |-> r.err, root |-> RootPut(ApplyToOuter(r.scope, root), entKey(EntTypeNameOf(e), id), json)]

\* putEnt from "fork storage" to "write value": [err, root]
PutEnd(root, prevEnt, e, id, changedFields, json) ==
    LET r == updateIndexes(root, prevEnt, <<e>>, id, changedFields, EmptyMap)
    IN IF r.err # "ok"
       THEN [err |-> r.err, root |-> root]
       ELSE [err |-> "ok", root |-> RootPut(ApplyToOuter(r.scope, root), entKey(EntTypeNameOf(e), id), json)]

(***************************************************************************)
(* Create and Save                                                         *)
(***************************************************************************)
\* atomic.AddUint64(&s.idgen, 1)
NextId(g) == g + 1

\* ent.CreateEnt -> EntStorage.Create: the id is taken from idgen
CreateEnt(h) ==
    /\ pc[h] = "idle"
    /\ idgen < MaxId
    /\ idgen' = NextId(idgen)
    /\ handed' = Append(handed, idgen')
    /\ call' = [call EXCEPT ![h] = [NoCall EXCEPT !.op = "create", !.id = idgen']]
    /\ pc' = [pc EXCEPT ![h] = "put"]
    /\ res' = [res EXCEPT ![h] = NoRes]
    /\ UNCHANGED <<mu, m, ent, program>>

\* EntStorage.Create: putEnt(e, id, 1, fieldmap) up to the version check
PutLock(h) ==
    /\ pc[h] = "put"
    /\ PutBegin(h, "create", call[h].id, 1, EntFieldsOf(ent[h]))
    /\ UNCHANGED <<idgen, m, ent, handed, program>>

\* a SaveEnt that calls the storage whether or not a field was changed
SaveEntUnchanged(h) ==
    /\ pc[h] = "idle"
    /\ IF ~ent[h].storage
       THEN Return(h, "save", "NoStorage") /\ UNCHANGED <<mu, pc, call>>
       ELSE /\ ent[h].version < MaxVersion
            /\ PutBegin(h, "save", ent[h].id, ent[h].version + 1, ent[h].fieldmap)
    /\ UNCHANGED <<idgen, m, ent, handed, program>>

\* ent.SaveEnt -> EntStorage.Save: putEnt(e, e.Id(), e.Version()+1, fieldmap)
\* up to the version check
SaveEnt(h) ==
    /\ pc[h] = "idle"
    /\ IF ~ent[h].storage
       THEN Return(h, "save", "NoStorage") /\ UNCHANGED <<mu, pc, call>>
       ELSE IF ent[h].fieldmap = {}
       THEN Return(h, "save", "NotChanged") /\ UNCHANGED <<mu, pc, call>>
       ELSE /\ ent[h].version < MaxVersion
            /\ PutBegin(h, "save", ent[h].id, ent[h].version + 1, ent[h].fieldmap)
    /\ UNCHANGED <<idgen, m, ent, handed, program>>

\* an epilogue that clears the changed fields whatever the storage returned
AfterPutClearsChanges(e, c, err) ==
    IF err # "ok" THEN [e EXCEPT !.fieldmap = {}]
    ELSE IF c.op = "create"
    THEN [e EXCEPT !.id = c.id, !.version = 1, !.storage = TRUE, !.fieldmap = {}]
    ELSE [e EXCEPT !.version = c.version, !.fieldmap = {}]

\* an epilogue that does not look at the error
AfterPutUnchecked(e, c, err) ==
    IF c.op = "create"
    THEN [e EXCEPT !.id = c.id, !.version = 1, !.storage = TRUE, !.fieldmap = {}]
    ELSE [e EXCEPT !.version = c.version, !.fieldmap = {}]

\* what CreateEnt and SaveEnt do to the EntBase once the storage call returned:
\* "if err == nil { ... }"
AfterPut(e, c, err) ==
    IF err # "ok" THEN e
    ELSE IF c.op = "create"
    THEN [e EXCEPT !.id = c.id, !.version = 1, !.storage = TRUE, !.fieldmap = {}]
    ELSE [e EXCEPT !.version = c.version, !.fieldmap = {}]

\* the rest of putEnt with its deferred s.mu.Unlock(), and the caller's epilogue
PutCommit(h) ==
    /\ pc[h] = "locked"
    /\ LET c == call[h]
           r == PutEnd(m, c.prevEnt, ent[h], c.id, c.changedFields, c.json)
       IN /\ m' = r.root
          /\ ent' = [ent EXCEPT ![h] = AfterPut(@, c, r.err)]
          /\ Return(h, c.op, r.err)
    /\ mu' = NoOwner
    /\ pc' = [pc EXCEPT ![h] = "idle"]
    /\ call' = [call EXCEPT ![h] = NoCall]
    /\ UNCHANGED <<idgen, handed, program>>

(***************************************************************************)
(* Loads                                                                   *)
(***************************************************************************)
\* a load that leaves the version of the EntBase as it was
KeepVersionAfterLoad(e, id, version) ==
    [e EXCEPT !.id = id, !.storage = TRUE, !.fieldmap = {}]

\* SetEntBaseFieldsAfterLoad
SetEntBaseFieldsAfterLoad(e, id, version) ==
    [e EXCEPT !.id = id, !.version = version, !.storage = TRUE, !.fieldmap = {}]

\* ent.LoadEntById(e, storage, id) -> EntStorage.LoadById -> loadEnt: [err, e]
LoadEntById(root, e, id) ==
    LET data == IF id = 0 THEN Nil ELSE RootGet(root, entKey(EntTypeName, id))
        r == JsonDecodeEnt(e, data)
    IN IF id = 0 \/ data.nil
       THEN [err |-> "NotFound", e |-> e]
       ELSE [err |-> "ok", e |-> SetEntBaseFieldsAfterLoad(r.e, id, r.version)]

\* the generated LoadAccountById(storage, id): a new Account is loaded
LoadAccountById(h, id) ==
    /\ pc[h] = "idle"
    /\ MuFree(mu)
    /\ LET r == LoadEntById(m, ZeroAccount, id)
       IN /\ ent' = [ent EXCEPT ![h] = r.e]
          /\ Return(h, "load", r.err)
    /\ UNCHANGED <<idgen, mu, m, pc, call, handed, program>>

\* Account.Reload -> ent.ReloadEnt
Reload(h) ==
    /\ pc[h] = "idle"
    /\ IF ~ent[h].storage
       THEN Return(h, "reload", "NoStorage") /\ UNCHANGED ent
       ELSE /\ MuFree(mu)
            /\ LET r == LoadEntById(m, ent[h], ent[h].id)
               IN /\ ent' = [ent EXCEPT ![h] = r.e]
                  /\ Return(h, "reload", r.err)
    /\ UNCHANGED <<idgen, mu, m, pc, call, handed, program>>

(***************************************************************************)
(* Delete                                                                  *)
(***************************************************************************)
\* EntStorage.Delete(e, id) for a type that has indexes.  decodeErr says
\* whether the JSON reader reports an error for a payload that is absent.
\* The result is [err, root, e].
StorageDelete(root, e, id, decodeErr) ==
    LET key == entKey(EntTypeName, id)
        data == RootGet(root, key)
        loaded == IF data.nil THEN e ELSE JsonDecodeEntPartial(e, data, AllFields).e
        r == updateIndexes(root, <<loaded>>, <<>>, id, AllFields, EmptyMap)
    IN IF data.nil /\ decodeErr
       THEN [err |-> "JsonError", root |-> root, e |-> e]
       ELSE IF r.err # "ok"
       THEN [err |-> r.err, root |-> root, e |-> loaded]
       ELSE [err |-> "ok", root |-> RootDel(ApplyToOuter(r.scope, root), key), e |-> loaded]

\* Account.PermanentlyDelete -> ent.DeleteEnt -> EntStorage.Delete
DeleteEnt(h) ==
    /\ pc[h] = "idle"
    /\ IF ~ent[h].storage
       THEN Return(h, "delete", "NoStorage") /\ UNCHANGED <<m, ent>>
       ELSE /\ MuFree(mu)
            /\ \E decodeErr \in BOOLEAN :
                 LET r == StorageDelete(m, ent[h], ent[h].id, decodeErr)
                 IN /\ m' = r.root
                    /\ ent' = [ent EXCEPT ![h] =
                          IF r.err = "ok"
                          THEN [r.e EXCEPT !.id = 0, !.version = 0, !.storage = FALSE, !.fieldmap = {}]
                          ELSE r.e]
                    /\ Return(h, "delete", r.err)
    /\ UNCHANGED <<idgen, mu, pc, call, handed, program>>

(***************************************************************************)
(* Index lookups                                                           *)
(***************************************************************************)
\* limitIds (not reversed)
limitIds(ids, limit) == IF limit > 0 /\ limit < Len(ids) THEN SubSeq(ids, 1, limit) ELSE ids

\* EntStorage.FindByIndex
FindByIndex(root, x, key, limit) == limitIds(indexGet(root, EntTypeName, x.Name, key), limit)

\* ent.FindIdByIndexKey: [id, err]
FindIdByIndexKey(root, x, key) ==
    LET v == FindByIndex(root, x, key, 1)
    IN IF Len(v) > 0 THEN [id |-> v[1], err |-> "ok"] ELSE [id |-> 0, err |-> "NotFound"]

\* the generated FindAccountByEmail(s, email): the key is []byte(email)
FindAccountByEmail(root, email) == FindIdByIndexKey(root, EntIndexes[1], email)

\* the generated FindAccountByKind(s, kind, 0): the key is c.Int(int64(kind), 32)
FindAccountByKind(root, kind) == FindByIndex(root, EntIndexes[2], Uint32BE(kind), 0)

(***************************************************************************)
(* The specifications                                                      *)
(***************************************************************************)
\* callers that create, change, save and delete their own accounts
Next ==
    \E h \in Handles :
        \/ New(h)
        \/ \E v \in Emails : SetEmail(h, v)
        \/ CreateEnt(h)
        \/ PutLock(h)
        \/ SaveEnt(h)
        \/ PutCommit(h)
        \/ DeleteEnt(h)

Spec == Init /\ [][Next]_vars

\* the account the storage of InitShared holds: name "", email "a", kind 0
SharedAccount == NewAccount(<<>>, <<97>>, 0)

\* a storage in which one account was created, and callers that hold zero Accounts
InitShared ==
    /\ idgen = 1
    /\ mu = NoOwner
    /\ m = PutEnd(EmptyMap, <<>>, SharedAccount, 1, AllFields,
                  JsonEncodeEnt(SharedAccount, 1, 1, AllFields)).root
    /\ ent = [h \in Handles |-> ZeroAccount]
    /\ pc = [h \in Handles |-> "idle"]
    /\ call = [h \in Handles |-> NoCall]
    /\ res = [h \in Handles |-> NoRes]
    /\ handed = <<1>>
    /\ program = "shared"

\* callers that load, change, save, reload and delete the one account
NextShared ==
    \E h \in Handles :
        \/ LoadAccountById(h, 1)
        \/ \E v \in Names : SetName(h, v)
        \/ \E v \in SharedEmails : SetEmail(h, v)
        \/ SaveEnt(h)
        \/ PutCommit(h)
        \/ Reload(h)
        \/ DeleteEnt(h)

SpecShared == InitShared /\ [][NextShared]_vars

\* either program
InitAll == Init \/ InitShared

NextAll ==
    \/ program = "own" /\ Next
    \/ program = "shared" /\ NextShared

SpecAll == InitAll /\ [][NextAll]_vars

(***************************************************************************)
(* redis.EntStorage.  m holds the keyspace of the server: a hash is a      *)
(* JsonValue of (field, value) pairs whose values are byte strings, a      *)
(* string is a BytesValue, and a sorted set is a ZsetValue of its members  *)
(* in lexicographic order (every score is 0).                              *)
(***************************************************************************)
\* makeEntKey: type ":" id in base 16
makeEntKey(entTypeName, id) == entTypeName \o <<58>> \o FormatUint(id, 16)

\* makeIndexKey: type "#" index, and ":" value for a unique index
makeIndexKey(entTypeName, x, entryKey) ==
    entTypeName \o <<35>> \o x.Name \o (IF IsUnique(x) THEN <<58>> \o entryKey ELSE <<>>)

\* writeUint64BE(id), for ids below 2^32
Uint64BE(v) == <<0, 0, 0, 0>> \o Uint32BE(v)

\* readUint64BE(b), for values below 2^31
readUint64BE(b) == ((b[5] * 256 + b[6]) * 256 + b[7]) * 256 + b[8]

ZsetValue(members) == [nil |-> FALSE, json |-> members, bytes |-> <<>>]

\* the members of the sorted set at a key (none when the key does not exist)
ZMembers(root, key) == RootGet(root, key).json

\* ZADD key 0 member
ZAdd(root, key, member) ==
    LET ms == ZMembers(root, key)
        lo == SelectSeq(ms, LAMBDA x : BytesLess(x, member))
        hi == SelectSeq(ms, LAMBDA x : BytesLess(member, x))
    IN RootPut(root, key, ZsetValue(lo \o <<member>> \o hi))

\* ZREM key member...: a sorted set that becomes empty is removed
ZRem(root, key, members) ==
    LET ms == SelectSeq(ZMembers(root, key), LAMBDA x : x \notin members)
    IN IF ms = <<>> THEN RootDel(root, key) ELSE RootPut(root, key, ZsetValue(ms))

\* ZRANGEBYLEX key "[" start "(" end
ZRangeByLex(root, key, start, end) ==
    SelectSeq(ZMembers(root, key), LAMBDA x : ~BytesLess(x, start) /\ BytesLess(x, end))

\* HGET: the value of a field of a hash; <<>> stands for the nil reply too
HGet(value, field) ==
    IF \E i \in 1..Len(value.json) : value.json[i][1] = field
    THEN value.json[CHOOSE i \in 1..Len(value.json) : value.json[i][1] = field][2]
    ELSE <<>>

RECURSIVE HSetFields(_, _)
\* the fields of a hash after HSET of the (field, value) pairs toks
HSetFields(old, toks) ==
    IF toks = <<>> THEN old
    ELSE LET k == Head(toks)[1]
             set == IF \E i \in 1..Len(old) : old[i][1] = k
                    THEN [i \in 1..Len(old) |-> IF old[i][1] = k THEN Head(toks) ELSE old[i]]
                    ELSE Append(old, Head(toks))
         IN HSetFields(set, Tail(toks))

\* ent_Account_fields.Names
FieldNames == <<"name", "alias", "email", "kind">>

\* redis.EntEncoder: Str writes the string, Int and Uint write the number in
\* base 10 (the numbers of the model are not negative)
EntEncoderValue(tok) == IF tok[1] \in {"kind", "_ver"} THEN FormatUint(tok[2], 10) ELSE tok[2]

\* encodeEntHSET: the (field, value) pairs of the HSET command
encodeEntHSET(e, version, fields) ==
    LET toks == (IF version # 0 THEN << <<"_ver", version>> >> ELSE <<>>) \o EntEncode(e, fields)
    IN [i \in 1..Len(toks) |-> <<toks[i][1], EntEncoderValue(toks[i])>>]

\* RReader.Uint and RReader.Int: a nil or empty reply reads as 0
ReaderValue(tok) ==
    IF tok[1] \in {"kind", "_ver"}
    THEN (IF tok[2] = <<>> THEN 0 ELSE ParseUint(tok[2], 10))
    ELSE tok[2]

\* the (key, value) pairs as the decoder's Key and typed reads return them
ReaderTokens(toks) == [i \in 1..Len(toks) |-> <<toks[i][1], ReaderValue(toks[i])>>]

\* decodeEnt on the reply of HGETALL: [err, e, version]
decodeEnt(e, value) ==
    IF value.nil THEN [err |-> "NotFound", e |-> e, version |-> 0]
    ELSE LET r == EntDecodeLoop([e |-> e, id |-> 0, version |-> 0], ReaderTokens(value.json), 1)
         IN [err |-> "ok", e |-> r.e, version |-> r.version]

\* loadEntPartial: HMGET key _ver <names of fields>, decoded by
\* EntDecodePartial through an ArrayEntDecoder: [e, version], version 0 when
\* the key does not exist
loadEntPartial(root, e, key, fields) ==
    LET value == RootGet(root, key)
        names == SelectSeq(FieldNames,
                           LAMBDA n : \E i \in fields : FieldNames[i + 1] = n)
        keys == <<"_ver">> \o names
        toks == [i \in 1..Len(keys) |-> <<keys[i], HGet(value, keys[i])>>]
    IN EntDecodePartialLoop([e |-> e, version |-> 0], ReaderTokens(toks), 1,
                            NumIndexedFields, fields)

\* makeGETEntIdCmd: GET key read as a base 16 number, 0 when the key does not exist
GetEntId(root, key) ==
    LET value == RootGet(root, key)
    IN IF value.nil \/ value.bytes = <<>> THEN 0 ELSE ParseUint(value.bytes, 16)

\* the write commands of a transaction
RedisCmd(name, key, args) == [name |-> name, key |-> key, args |-> args]

\* makeZADDIdCmd: ZADD key 0 value 0xFE <id, 8 bytes big-endian>
makeZADDIdCmd(key, valueKey, id) ==
    RedisCmd("ZADD", key, << <<48>>, valueKey \o <<254>> \o Uint64BE(id) >>)

\* makeZREMIdCmd: ZREM key 0 value 0xFE <id in base 16>
makeZREMIdCmd(key, valueKey, id) ==
    RedisCmd("ZREM", key, << <<48>>, valueKey \o <<254>> \o FormatUint(id, 16) >>)

\* makeSETNXIdCmd: SETNX key <id in base 16>
makeSETNXIdCmd(key, id) == RedisCmd("SETNX", key, <<FormatUint(id, 16)>>)

\* what the server does for one write command
RedisRun(root, cmd) ==
    IF cmd.name = "HSET"
    THEN RootPut(root, cmd.key, JsonValue(HSetFields(RootGet(root, cmd.key).json, cmd.args)))
    ELSE IF cmd.name = "DEL" THEN RootDel(root, cmd.key)
    ELSE IF cmd.name = "SETNX"
    THEN (IF cmd.key \in DOMAIN root THEN root ELSE RootPut(root, cmd.key, BytesValue(cmd.args[1])))
    ELSE IF cmd.name = "ZADD"
    THEN (IF \E i \in 1..Len(ZMembers(root, cmd.key)) : ZMembers(root, cmd.key)[i] = cmd.args[2]
          THEN root ELSE ZAdd(root, cmd.key, cmd.args[2]))
    ELSE ZRem(root, cmd.key, {cmd.args[i] : i \in 1..Len(cmd.args)})

RECURSIVE RedisRunAll(_, _)
\* MULTI cmds... EXEC that is not aborted
RedisRunAll(root, cmds) ==
    IF cmds = <<>> THEN root ELSE RedisRunAll(RedisRun(root, Head(cmds)), Tail(cmds))

\* the keys a transaction modifies: they invalidate the WATCH of other clients
ModifiedKeys(root, cmds) ==
    {cmds[i].key : i \in {j \in 1..Len(cmds) :
        \/ cmds[j].name = "HSET"
        \/ RootGet(root, cmds[j].key) # RootGet(RedisRunAll(root, cmds), cmds[j].key)}}

RECURSIVE RedisIndexCmds(_, _, _, _, _)
\* the loop of computeIndexEdits over the edits; acc is [err, cmds, watchKeys].
\* doNow (WATCH key, GET key) reads the server as it is
RedisIndexCmds(edits, i, id, root, acc) ==
    IF i > Len(edits) THEN acc
    ELSE LET ed == edits[i]
             key == makeIndexKey(EntTypeName, ed.Index, ed.Key)
             existingId == GetEntId(root, key)
         IN IF ed.IsCleanup
            THEN RedisIndexCmds(edits, i + 1, id, root,
                   [acc EXCEPT !.cmds = Append(@, IF IsUnique(ed.Index)
                                                   THEN RedisCmd("DEL", key, <<>>)
                                                   ELSE makeZREMIdCmd(key, ed.Key, id))])
            ELSE IF ~IsUnique(ed.Index)
            THEN RedisIndexCmds(edits, i + 1, id, root,
                   [acc EXCEPT !.cmds = Append(@, makeZADDIdCmd(key, ed.Key, id))])
            ELSE IF existingId = 0
            THEN RedisIndexCmds(edits, i + 1, id, root,
                   [acc EXCEPT !.cmds = Append(@, makeSETNXIdCmd(key, id)),
                               !.watchKeys = @ \cup {key}])
            ELSE IF existingId # id
            THEN [acc EXCEPT !.err = "UniqueConflict", !.watchKeys = @ \cup {key}]
            ELSE RedisIndexCmds(edits, i + 1, id, root, [acc EXCEPT !.watchKeys = @ \cup {key}])

\* redis EntStorage.computeIndexEdits: ComputeIndexEdits with a nil indexGet,
\* then one command per edit
computeIndexEdits(root, prevEnt, nextEnt, id, fields, acc) ==
    RedisIndexCmds(ComputeIndexEdits(FALSE, root, prevEnt, nextEnt, id, fields), 1, id, root, acc)

\* redis FindByIndex: [ids, err]
RedisFindByIndex(root, x, key, limit) ==
    LET ikey == makeIndexKey(EntTypeName, x, key)
        id == GetEntId(root, ikey)
        ms == ZRangeByLex(root, ikey, key \o <<254>>, key \o <<255>>)
        ids == [i \in 1..Len(ms) |-> readUint64BE(SubSeq(ms[i], Len(key) + 2, Len(ms[i])))]
    IN IF IsUnique(x)
       THEN (IF id = 0 THEN [ids |-> <<>>, err |-> "NotFound"] ELSE [ids |-> <<id>>, err |-> "ok"])
       ELSE [ids |-> limitIds(ids, limit), err |-> "ok"]

\* FindAccountByEmail and FindAccountByKind on a redis storage
RedisFindAccountByEmail(root, email) ==
    LET r == RedisFindByIndex(root, EntIndexes[1], email, 1)
    IN IF r.err = "ok" /\ Len(r.ids) > 0 THEN [id |-> r.ids[1], err |-> "ok"]
       ELSE [id |-> 0, err |-> "NotFound"]

RedisFindAccountByKind(root, kind) == RedisFindByIndex(root, EntIndexes[2], Uint32BE(kind), 0).ids

(***************************************************************************)
(* redis.EntStorage: Create, Save, Delete, LoadById.  A write call takes   *)
(* two steps: the reads it makes under WATCH, and the pipelined            *)
(* MULTI ... EXEC.                                                         *)
(***************************************************************************)
\* most calls of Create the callers of a redis storage make
MaxCreates == 2

\* putEnt up to the pipeline: WATCH entKey, the version check, the index
\* commands with their WATCH and GET.  An error is returned (UNWATCH);
\* otherwise the caller goes on to send the pipeline
RedisPutBegin(h, op, id, prevVersion, nextVersion, fields) ==
    LET key == makeEntKey(EntTypeName, id)
        cur == loadEntPartial(m, ZeroAccount, key, fields)
        verr == IF prevVersion = 0 THEN "ok"
                ELSE IF cur.version = 0 THEN "NotFound"
                ELSE IF VersionDiffers(prevVersion, cur.version) THEN "VersionConflict"
                ELSE "ok"
        currEnt == IF prevVersion # 0 THEN <<cur.e>> ELSE <<>>
        x == computeIndexEdits(m, currEnt, <<ent[h]>>, id, fields,
                [err |-> "ok",
                 cmds |-> <<RedisCmd("HSET", key, encodeEntHSET(ent[h], nextVersion, fields))>>,
                 watchKeys |-> {key}])
        err == IF verr # "ok" THEN verr ELSE x.err
    IN IF err # "ok"
       THEN /\ Return(h, op, err)
            /\ pc' = [pc EXCEPT ![h] = "idle"]
            /\ call' = [call EXCEPT ![h] = NoCall]
       ELSE /\ pc' = [pc EXCEPT ![h] = "exec"]
            /\ call' = [call EXCEPT ![h] =
                  [NoCall EXCEPT !.op = op, !.id = id, !.version = nextVersion,
                                 !.changedFields = fields,
                                 !.cmds = x.cmds, !.watchKeys = x.watchKeys]]
            /\ UNCHANGED res

\* ent.CreateEnt -> redis EntStorage.Create: "id = e.Id(); if id == 0 { HINCRBY }",
\* then putEnt(e, id, 0, 1, fields) up to the pipeline
RedisCreate(h) ==
    /\ pc[h] = "idle"
    /\ Len(handed) < MaxCreates
    /\ ent[h].id = 0 => idgen < MaxId
    /\ LET id == IF ent[h].id = 0 THEN NextId(idgen) ELSE ent[h].id
       IN /\ idgen' = IF ent[h].id = 0 THEN id ELSE idgen
          /\ handed' = Append(handed, id)
          /\ RedisPutBegin(h, "create", id, 0, 1, AllFields)
    /\ UNCHANGED <<mu, m, ent, program>>

\* ent.SaveEnt -> redis EntStorage.Save: putEnt(e, e.Id(), e.Version(),
\* e.Version()+1, fields) up to the pipeline
RedisSave(h) ==
    /\ pc[h] = "idle"
    /\ IF ~ent[h].storage
       THEN Return(h, "save", "NoStorage") /\ UNCHANGED <<pc, call>>
       ELSE IF ent[h].fieldmap = {}
       THEN Return(h, "save", "NotChanged") /\ UNCHANGED <<pc, call>>
       ELSE /\ ent[h].version < MaxVersion
            /\ RedisPutBegin(h, "save", ent[h].id, ent[h].version, ent[h].version + 1,
                             ent[h].fieldmap)
    /\ UNCHANGED <<idgen, mu, m, ent, handed, program>>

\* ent.DeleteEnt -> redis EntStorage.Delete -> deleteEntWithIndexes up to the
\* pipeline: WATCH entKey, loadEntPartial into the caller's ent, the cleanup
\* commands
RedisDelete(h) ==
    /\ pc[h] = "idle"
    /\ IF ~ent[h].storage
       THEN Return(h, "delete", "NoStorage") /\ UNCHANGED <<ent, pc, call>>
       ELSE LET key == makeEntKey(EntTypeName, ent[h].id)
                r == loadEntPartial(m, ent[h], key, AllFields)
                x == computeIndexEdits(m, <<r.e>>, <<>>, ent[h].id, AllFields,
                        [err |-> "ok", cmds |-> <<RedisCmd("DEL", key, <<>>)>>,
                         watchKeys |-> {key}])
            IN /\ ent' = [ent EXCEPT ![h] = r.e]
               /\ pc' = [pc EXCEPT ![h] = "exec"]
               /\ call' = [call EXCEPT ![h] =
                     [NoCall EXCEPT !.op = "delete", !.id = ent[h].id,
                                    !.cmds = x.cmds, !.watchKeys = x.watchKeys]]
               /\ UNCHANGED res
    /\ UNCHANGED <<idgen, mu, m, handed, program>>

\* the pipeline WATCH keys, MULTI, cmds..., EXEC and the caller's epilogue.
\* The server aborts the transaction when a watched key was modified since
\* its WATCH; every command of the pipeline is a RawCmd, whose reply is
\* discarded, so the call returns nil either way
RedisExec(h) ==
    /\ pc[h] = "exec"
    /\ LET c == call[h]
           keys == IF c.dirty THEN {} ELSE ModifiedKeys(m, c.cmds)
       IN /\ m' = IF c.dirty THEN m ELSE RedisRunAll(m, c.cmds)
          /\ ent' = [ent EXCEPT ![h] =
                IF c.op = "delete"
                THEN [@ EXCEPT !.id = 0, !.version = 0, !.storage = FALSE, !.fieldmap = {}]
                ELSE AfterPut(@, c, "ok")]
          /\ call' = [g \in Handles |->
                IF g = h THEN NoCall
                ELSE IF call[g].watchKeys \cap keys # {}
                THEN [call[g] EXCEPT !.dirty = TRUE]
                ELSE call[g]]
          /\ Return(h, c.op, "ok")
    /\ pc' = [pc EXCEPT ![h] = "idle"]
    /\ UNCHANGED <<idgen, mu, handed, program>>

\* redis EntStorage.LoadById: HGETALL, decodeEnt, and
\* SetEntBaseFieldsAfterLoad whether or not the ent was found: [err, e]
RedisLoadById(root, e, id) ==
    LET r == decodeEnt(e, RootGet(root, makeEntKey(EntTypeName, id)))
    IN [err |-> r.err, e |-> SetEntBaseFieldsAfterLoad(r.e, id, r.version)]

\* the generated LoadAccountById(storage, id) on a redis storage: the new
\* Account is returned with the error
RedisLoadAccountById(h, id) ==
    /\ pc[h] = "idle"
    /\ LET r == IF id = 0 THEN [err |-> "NotFound", e |-> ZeroAccount]
                ELSE RedisLoadById(m, ZeroAccount, id)
       IN /\ ent' = [ent EXCEPT ![h] = r.e]
          /\ Return(h, "load", r.err)
    /\ UNCHANGED <<idgen, mu, m, pc, call, handed, program>>

\* the emails the callers of a redis storage set: "a"
RedisEmails == {<<97>>}

\* a new redis server and callers that hold zero Accounts
InitRedis ==
    /\ idgen = 0
    /\ mu = NoOwner
    /\ m = EmptyMap
    /\ ent = [h \in Handles |-> ZeroAccount]
    /\ pc = [h \in Handles |-> "idle"]
    /\ call = [h \in Handles |-> NoCall]
    /\ res = [h \in Handles |-> NoRes]
    /\ handed = <<>>
    /\ program = "redis"

\* callers that create, load, change, save and delete accounts
NextRedis ==
    \E h \in Handles :
        \/ \E v \in RedisEmails : SetEmail(h, v)
        \/ RedisCreate(h)
        \/ RedisSave(h)
        \/ RedisDelete(h)
        \/ RedisExec(h)
        \/ RedisLoadAccountById(h, 1)

SpecRedis == InitRedis /\ [][NextRedis]_vars

\* the callers of a storage that holds one account, or those of a redis storage
InitBackends == InitShared \/ InitRedis

NextBackends ==
    \/ program = "shared" /\ NextShared
    \/ program = "redis" /\ NextRedis

SpecBackends == InitBackends /\ [][NextBackends]_vars

\* what a reader of a redis storage sees for an id
RedisIsStored(root, id) == ~RootGet(root, makeEntKey(EntTypeName, id)).nil
RedisStoredVersion(root, id) ==
    decodeEnt(ZeroAccount, RootGet(root, makeEntKey(EntTypeName, id))).version

(***************************************************************************)
(* What a reader of the storage sees                                       *)
(***************************************************************************)
\* the payload stored for an id
StoredData(root, id) == RootGet(root, entKey(EntTypeName, id))
IsStored(root, id) == ~StoredData(root, id).nil
\* the version and the fields LoadById decodes from the payload of an id
StoredVersion(root, id) == JsonDecodeEnt(ZeroAccount, StoredData(root, id)).version
StoredEnt(root, id) == JsonDecodeEnt(ZeroAccount, StoredData(root, id)).e

\* caller h holds a stored ent with changed fields: SaveEnt(h) gets to EntStorage.Save
CanSave(h) == pc[h] = "idle" /\ ent[h].storage /\ ent[h].fieldmap # {}

ResIs(h, op, err) == res[h].op = op /\ res[h].err = err

(***************************************************************************)
(* C1: a save whose expected version (the version of the caller's ent,     *)
(* which it got when it was loaded or created) differs from the version    *)
(* stored for the id returns ErrVersionConflict, and the payload, the      *)
(* stored version and every index entry (the whole root map, the whole     *)
(* keyspace) are after the call what they were before it.  This is stated  *)
(* of the in-memory and of the redis storage.                              *)
(***************************************************************************)
C1_StaleSaveConflicts ==
    [][\A h \in Handles :
        /\ (/\ program # "redis"
            /\ CanSave(h)
            /\ IsStored(m, ent[h].id)
            /\ StoredVersion(m, ent[h].id) # ent[h].version
            /\ SaveEnt(h))
           => (res'[h].op = "save" /\ res'[h].err = "VersionConflict" /\ m' = m)
        /\ (/\ program = "redis"
            /\ CanSave(h)
            /\ ent[h].version # 0
            /\ RedisIsStored(m, ent[h].id)
            /\ RedisStoredVersion(m, ent[h].id) # ent[h].version
            /\ RedisSave(h))
           => (res'[h].op = "save" /\ res'[h].err = "VersionConflict" /\ m' = m)]_vars

\* a save that would have changed the unique email index returned
\* ErrVersionConflict; the stored ent is found under its email as before
C1_Witness ==
    \E h \in Handles :
        /\ program = "shared"
        /\ ResIs(h, "save", "VersionConflict")
        /\ IsStored(m, ent[h].id)
        /\ StoredVersion(m, ent[h].id) > ent[h].version
        /\ StoredEnt(m, ent[h].id).email # ent[h].email
        /\ FindAccountByEmail(m, StoredEnt(m, ent[h].id).email).id = ent[h].id
        /\ FindAccountByEmail(m, ent[h].email).err = "NotFound"

\* the same on a redis storage: the stored ent has the next version and the
\* email the other caller saved
C1_RedisWitness ==
    \E h \in Handles :
        /\ program = "redis"
        /\ ResIs(h, "save", "VersionConflict")
        /\ ent[h].version # 0
        /\ RedisStoredVersion(m, ent[h].id) = ent[h].version + 1
        /\ RedisFindAccountByEmail(m, <<97>>).id = ent[h].id

(***************************************************************************)
(* C3: the version check and the commit of a save are indivisible: of two  *)
(* callers that hold the same ent at the same version v and both save,     *)
(* never both succeed; once one has succeeded (stored version v+1) the     *)
(* save of the other returns ErrVersionConflict; and a save of the version *)
(* that is stored passes the version check.                                *)
(***************************************************************************)
C3_BothSucceeded ==
    \E h, g \in Handles :
        /\ h # g
        /\ ResIs(h, "save", "ok") /\ ResIs(g, "save", "ok")
        /\ ent[h].id = ent[g].id
        /\ ent[h].version = ent[g].version

C3_OneSaveWins ==
    [][/\ ~C3_BothSucceeded'
       /\ \A h, g \in Handles :
            (/\ h # g
             /\ ResIs(h, "save", "ok")
             /\ CanSave(g)
             /\ ent[g].id = ent[h].id
             /\ ent[g].version + 1 = ent[h].version
             /\ SaveEnt(g))
            => (res'[g].op = "save" /\ res'[g].err = "VersionConflict")
       /\ \A h \in Handles :
            (/\ CanSave(h)
             /\ IsStored(m, ent[h].id)
             /\ StoredVersion(m, ent[h].id) = ent[h].version
             /\ SaveEnt(h))
            => (pc'[h] = "locked" /\ call'[h].version = ent[h].version + 1)
      ]_vars

\* both callers loaded version v; one save stored v+1, the other returned
\* ErrVersionConflict
C3_Witness ==
    \E h, g \in Handles :
        /\ h # g
        /\ ResIs(h, "save", "ok")
        /\ ResIs(g, "save", "VersionConflict")
        /\ ent[g].id = ent[h].id
        /\ ent[g].version + 1 = ent[h].version
        /\ StoredVersion(m, ent[h].id) = ent[h].version

(***************************************************************************)
(* More of what a reader sees                                              *)
(***************************************************************************)
Ids == 1..MaxId
InSeq(x, seq) == \E i \in 1..Len(seq) : seq[i] = x

\* a stored ent other than id holds this email
EmailHeldByOther(root, id, email) ==
    \E j \in Ids : j # id /\ IsStored(root, j) /\ StoredEnt(root, j).email = email

\* caller h takes a step of its Create or Save call
PutStep(h) == CreateEnt(h) \/ PutLock(h) \/ SaveEnt(h) \/ PutCommit(h)

C4_CommitsDuplicate(h) ==
    /\ PutCommit(h)
    /\ call[h].op = "create" \/ ent_Account_f_email \in call[h].changedFields
    /\ EmailHeldByOther(m, call[h].id, ent[h].email)

C4_AnyDuplicateConflicts ==
    [][\A h \in Handles :
        C4_CommitsDuplicate(h) => (res'[h].err = "UniqueConflict" /\ m' = m)]_vars

C4_DuplicateConflicts ==
    [][\A h \in Handles :
        (C4_CommitsDuplicate(h) /\ ent[h].email # <<>>)
        => (res'[h].err = "UniqueConflict" /\ m' = m)]_vars

\* a save that changed the email to one that another ent holds returned
\* ErrUniqueConflict; the holder is stored and found under the email
C4_Witness ==
    \E h \in Handles, i \in Ids :
        /\ ResIs(h, "save", "UniqueConflict")
        /\ i # ent[h].id
        /\ ent[h].email # <<>>
        /\ IsStored(m, i) /\ StoredEnt(m, i).email = ent[h].email
        /\ FindAccountByEmail(m, ent[h].email).id = i
        /\ IsStored(m, ent[h].id) /\ StoredEnt(m, ent[h].id).email # ent[h].email

(***************************************************************************)
(* C5 (in-memory backend): after a delete returned nil the payload is      *)
(* gone, no lookup by email or by kind returns the id, and the email is    *)
(* free: a create with an email that no stored ent holds never returns     *)
(* ErrUniqueConflict.                                                      *)
(***************************************************************************)
C5_DeleteCleansIndexes ==
    [][\A h \in Handles :
        /\ (DeleteEnt(h) /\ res'[h].err = "ok")
           => /\ ~IsStored(m', ent[h].id)
              /\ \A email \in Emails : FindAccountByEmail(m', email).id # ent[h].id
              /\ \A kind \in Kinds : ~InSeq(ent[h].id, FindAccountByKind(m', kind))
              /\ IsStored(m, ent[h].id)
                 => FindAccountByEmail(m', StoredEnt(m, ent[h].id).email).err = "NotFound"
        /\ (PutCommit(h) /\ call[h].op = "create"
              /\ ~EmailHeldByOther(m, call[h].id, ent[h].email))
           => res'[h].err = "ok"]_vars

\* an ent was deleted and another ent was created with its email and kind
C5_Witness ==
    \E h \in Handles, i, j \in Ids :
        /\ ResIs(h, "create", "ok")
        /\ ent[h].id = j /\ i < j
        /\ InSeq(i, handed) /\ ~IsStored(m, i)
        /\ ent[h].email # <<>>
        /\ FindAccountByEmail(m, ent[h].email).id = j
        /\ FindAccountByKind(m, ent[h].kind) = <<j>>
        /\ \E g \in Handles : ResIs(g, "delete", "ok") /\ ent[g].email = ent[h].email

(***************************************************************************)
(* C5 (redis backend): after a delete whose transaction the server ran     *)
(* returned nil the payload is gone and no lookup by email or by kind      *)
(* returns the id.                                                         *)
(***************************************************************************)
C5_RedisDeleteCleansIndexes ==
    [][\A h \in Handles :
        (program = "redis" /\ RedisExec(h) /\ call[h].op = "delete" /\ ~call[h].dirty)
        => /\ ~RedisIsStored(m', call[h].id)
           /\ \A email \in Emails : RedisFindAccountByEmail(m', email).id # call[h].id
           /\ \A kind \in Kinds : ~InSeq(call[h].id, RedisFindAccountByKind(m', kind))]_vars

\* an ent was created on a redis storage and deleted; its payload and its
\* email entry are gone
C5_RedisWitness ==
    \E h \in Handles, i \in Ids :
        /\ program = "redis"
        /\ ResIs(h, "delete", "ok")
        /\ ent[h].email = <<97>>
        /\ InSeq(i, handed) /\ ~RedisIsStored(m, i)
        /\ RedisFindAccountByEmail(m, <<97>>).err = "NotFound"

(***************************************************************************)
(* C6: after a save that changed the email of an ent from A to B returned  *)
(* nil, a lookup by A returns ErrNotFound (so A is free for another ent)   *)
(* and a lookup by B returns the id of the ent.                            *)
(* As the claim states it, for every B: C6_AnyEmailChangeMovesEntry.       *)
(* As the code has it, for every B but "": C6_EmailChangeMovesEntry.       *)
(***************************************************************************)
\* caller h commits a save that changes the stored email
C6_CommitsEmailChange(h) ==
    /\ PutCommit(h) /\ res'[h].err = "ok"
    /\ call[h].op = "save"
    /\ ent_Account_f_email \in call[h].changedFields
    /\ IsStored(m, call[h].id)
    /\ StoredEnt(m, call[h].id).email # ent[h].email

C6_AnyEmailChangeMovesEntry ==
    [][\A h \in Handles :
        C6_CommitsEmailChange(h)
        => /\ FindAccountByEmail(m', StoredEnt(m, call[h].id).email).err = "NotFound"
           /\ FindAccountByEmail(m', ent[h].email).id = call[h].id]_vars

C6_EmailChangeMovesEntry ==
    [][\A h \in Handles :
        C6_CommitsEmailChange(h)
        => /\ FindAccountByEmail(m', StoredEnt(m, call[h].id).email).err = "NotFound"
           /\ ent[h].email # <<>>
              => FindAccountByEmail(m', ent[h].email).id = call[h].id]_vars

\* the email of an ent was changed from "a" to "b" and another ent was
\* created with "a"
C6_Witness ==
    \E h, g \in Handles :
        /\ h # g
        /\ ent[h].storage /\ ent[h].version = 2 /\ ent[h].email = <<98>>
        /\ StoredEnt(m, ent[h].id).email = <<98>>
        /\ FindAccountByEmail(m, <<98>>).id = ent[h].id
        /\ ResIs(g, "create", "ok") /\ ent[g].email = <<97>>
        /\ ent[g].id > ent[h].id
        /\ FindAccountByEmail(m, <<97>>).id = ent[g].id

(***************************************************************************)
(* C7: reload and retry resolves a version conflict.  A reload that        *)
(* returns nil leaves the caller with the stored version and no changed    *)
(* fields; a caller whose save returned ErrVersionConflict and who then    *)
(* reloaded and changed a field passes the version check when it saves the *)
(* version that is stored, and its save returns nil with the next version  *)
(* (3 for the README's a2, reloaded at version 2).                         *)
(***************************************************************************)
C7_ReloadAndRetry ==
    [][\A h \in Handles :
        /\ (Reload(h) /\ res'[h].err = "ok")
           => /\ ent'[h].version = StoredVersion(m, ent[h].id)
              /\ ent'[h].id = ent[h].id
              /\ ent'[h].fieldmap = {}
        /\ (/\ res[h].retry /\ CanSave(h)
            /\ IsStored(m, ent[h].id)
            /\ StoredVersion(m, ent[h].id) = ent[h].version
            /\ SaveEnt(h))
           => pc'[h] = "locked"
        /\ (res[h].retry /\ PutCommit(h) /\ call[h].op = "save")
           => /\ res'[h].err = "ok"
              /\ ent'[h].version = ent[h].version + 1
              /\ StoredVersion(m', ent[h].id) = ent'[h].version]_vars

\* a1 saved version 2; a2, whose save had returned ErrVersionConflict,
\* reloaded, changed a field and saved version 3
C7_Witness ==
    \E a1, a2 \in Handles :
        /\ a1 # a2
        /\ ResIs(a1, "save", "ok") /\ ent[a1].version = 2
        /\ ResIs(a2, "save", "ok") /\ res[a2].retry /\ ent[a2].version = 3
        /\ ent[a1].id = ent[a2].id
        /\ StoredVersion(m, ent[a2].id) = 3

(***************************************************************************)
(* C8: a save that returns nil increases the stored version of the ent by  *)
(* exactly 1, a create that returns nil stores version 1, and the stored   *)
(* version of an id never decreases and never skips a value.               *)
(* C8_VersionsStepByOne states this of every save; C8_StoredVersionsStepByOne *)
(* of the saves of ents whose payload is stored.                           *)
(***************************************************************************)
C8_VersionsStepByOne ==
    [][/\ \A i \in Ids :
            (IsStored(m, i) /\ IsStored(m', i))
            => StoredVersion(m', i) \in {StoredVersion(m, i), StoredVersion(m, i) + 1}
       /\ \A h \in Handles :
            (PutCommit(h) /\ res'[h].err = "ok")
            => IF call[h].op = "create"
               THEN StoredVersion(m', call[h].id) = 1
               ELSE /\ IsStored(m, call[h].id)
                    /\ StoredVersion(m', call[h].id) = StoredVersion(m, call[h].id) + 1
      ]_vars

C8_StoredVersionsStepByOne ==
    [][/\ \A i \in Ids :
            (IsStored(m, i) /\ IsStored(m', i))
            => StoredVersion(m', i) \in {StoredVersion(m, i), StoredVersion(m, i) + 1}
       /\ \A h \in Handles :
            (PutCommit(h) /\ res'[h].err = "ok")
            => IF call[h].op = "create"
               THEN StoredVersion(m', call[h].id) = 1
               ELSE IsStored(m, call[h].id)
                    => StoredVersion(m', call[h].id) = StoredVersion(m, call[h].id) + 1
      ]_vars

\* two saves of the stored ent returned nil one after the other: versions 2 and 3
C8_Witness ==
    \E h \in Handles :
        /\ ResIs(h, "save", "ok")
        /\ ent[h].version = 3
        /\ IsStored(m, ent[h].id) /\ StoredVersion(m, ent[h].id) = 3
        /\ StoredEnt(m, ent[h].id).email = <<98>>

(***************************************************************************)
(* C9 (in-memory backend): every id Create takes is non-zero and differs   *)
(* from every id taken before, whether or not the creates overlap or       *)
(* return an error; the ids of the stored and of the callers' ents are     *)
(* among them.                                                             *)
(***************************************************************************)
C9_FreshIds ==
    /\ \A i \in 1..Len(handed) :
          /\ handed[i] # 0
          /\ \A j \in 1..Len(handed) : i # j => handed[i] # handed[j]
    /\ \A i \in Ids : IsStored(m, i) => InSeq(i, handed)
    /\ \A h \in Handles :
          /\ ent[h].storage => InSeq(ent[h].id, handed)
          /\ pc[h] # "idle" => InSeq(call[h].id, handed)

\* two creates overlap, each with its own id
C9_Witness ==
    \E h, g \in Handles :
        /\ h # g
        /\ pc[h] = "put" /\ call[h].op = "create"
        /\ pc[g] = "locked" /\ call[g].op = "create"
        /\ call[h].id # 0 /\ call[g].id # 0
        /\ call[h].id # call[g].id

(***************************************************************************)
(* C9 (redis backend): every id Create returns is non-zero and differs     *)
(* from every id Create returned before.                                   *)
(***************************************************************************)
C9_RedisFreshIds ==
    program = "redis"
    => \A i, j \in 1..Len(handed) : handed[i] # 0 /\ (i # j => handed[i] # handed[j])

\* two callers of a redis storage created an ent each, with ids 1 and 2
C9_RedisWitness ==
    /\ program = "redis"
    /\ handed = <<1, 2>>
    /\ \A h \in Handles : ResIs(h, "create", "ok")
    /\ \E h, g \in Handles : ent[h].id = 1 /\ ent[g].id = 2

(***************************************************************************)
(* C10: a create or save that returns an error leaves the id, the version  *)
(* and the changed fields of the caller's ent as they were before the call.*)
(***************************************************************************)
C10_FailedPutKeepsEntBase ==
    [][\A h \in Handles :
        (PutStep(h) /\ ~(PutCommit(h) /\ res'[h].err = "ok"))
        => /\ ent'[h].id = ent[h].id
           /\ ent'[h].version = ent[h].version
           /\ ent'[h].fieldmap = ent[h].fieldmap
           /\ ent'[h].storage = ent[h].storage]_vars

\* a save of a changed email returned ErrUniqueConflict; the caller's ent
\* still has its version and its changed field
C10_Witness ==
    \E h \in Handles :
        /\ ResIs(h, "save", "UniqueConflict")
        /\ ent[h].storage /\ ent[h].id # 0
        /\ ent[h].version = StoredVersion(m, ent[h].id)
        /\ ent[h].fieldmap = {ent_Account_f_email}

(***************************************************************************)
(* C11: a save with an expected version other than 0 of an ent whose       *)
(* payload is absent from storage (it was deleted through another handle)  *)
(* returns ErrNotFound and leaves the storage as it was: neither a payload *)
(* nor an index entry is written.                                          *)
(* C11_SaveOfAbsentNotFound states this of the in-memory storage,          *)
(* C11_RedisSaveOfAbsentNotFound of the redis storage.                     *)
(***************************************************************************)
C11_SaveOfAbsentNotFound ==
    [][\A h \in Handles :
        /\ (/\ program # "redis"
            /\ CanSave(h)
            /\ ent[h].version # 0
            /\ ~IsStored(m, ent[h].id)
            /\ SaveEnt(h))
           => (res'[h].op = "save" /\ res'[h].err = "NotFound" /\ pc'[h] = "idle")
        /\ (/\ program # "redis"
            /\ PutCommit(h)
            /\ call[h].op = "save"
            /\ ~IsStored(m, call[h].id))
           => m' = m]_vars

\* an ent was deleted through one handle; the save through the other handle
\* returned nil and the payload is stored again, with the next version
C11_Witness ==
    \E h, g \in Handles :
        /\ h # g
        /\ program = "shared"
        /\ ResIs(g, "delete", "ok")
        /\ ResIs(h, "save", "ok")
        /\ ent[h].version = 2
        /\ IsStored(m, ent[h].id)
        /\ StoredVersion(m, ent[h].id) = 2

C11_RedisSaveOfAbsentNotFound ==
    [][\A h \in Handles :
        (/\ program = "redis"
         /\ CanSave(h)
         /\ ent[h].version # 0
         /\ ~RedisIsStored(m, ent[h].id)
         /\ RedisSave(h))
        => (res'[h].op = "save" /\ res'[h].err = "NotFound" /\ pc'[h] = "idle" /\ m' = m)]_vars

\* on a redis storage the save of an ent that was deleted through the other
\* handle returned ErrNotFound and nothing is stored for the id
C11_RedisWitness ==
    \E h, g \in Handles :
        /\ h # g
        /\ program = "redis"
        /\ ResIs(g, "delete", "ok")
        /\ ResIs(h, "save", "NotFound")
        /\ ent[h].version # 0
        /\ ~RedisIsStored(m, ent[h].id)
        /\ RedisFindAccountByEmail(m, ent[h].email).err = "NotFound"

(***************************************************************************)
(* Index lookups that load ents: mem.EntStorage.LoadByIndex and the ent    *)
(* package's wrappers.  An element of a result is [obj, e]: obj says which *)
(* object it is, "e" (the ent the caller passed) or "new" (made by         *)
(* e.EntNew()), and e is what the object holds.                            *)
(***************************************************************************)
\* a LoadByIndex that makes a new object for every result
AlwaysEntNew(i) == "new"

\* "e2 := e; if i > 0 { e2 = e.EntNew() }" for the i-th result, counted from 1
LoadTarget(i) == IF i > 1 THEN "new" ELSE "e"

\* EntStorage.FindByIndex with the error it returns, that of indexGet: [ids, err]
MemFindByIndex(root, x, key, limit) ==
    [ids |-> FindByIndex(root, x, key, limit), err |-> "ok"]

RECURSIVE LoadByIndexLoop(_, _, _, _, _)
\* the loop of LoadByIndex over the ids; acc is [ents, err, e], e being what
\* the caller's object holds
LoadByIndexLoop(root, e, ids, i, acc) ==
    IF i > Len(ids) THEN acc
    ELSE LET id == ids[i]
             data == RootGet(root, entKey(EntTypeName, id))
             e2 == IF LoadTarget(i) = "e" THEN acc.e ELSE ZeroAccount
             r == JsonDecodeEnt(e2, data)
             loaded == SetEntBaseFieldsAfterLoad(r.e, id, r.version)
         IN IF data.nil
            THEN [ents |-> <<>>, err |-> "NotFound", e |-> acc.e]
            ELSE LoadByIndexLoop(root, e, ids, i + 1,
                   [ents |-> Append(acc.ents, [obj |-> LoadTarget(i), e |-> loaded]),
                    err |-> "ok",
                    e |-> IF LoadTarget(i) = "e" THEN loaded ELSE acc.e])

\* mem EntStorage.LoadByIndex(e, x, key, limit, 0): [ents, err, e]
LoadByIndex(root, e, x, key, limit) ==
    LET ids == indexGet(root, EntTypeName, x.Name, key)
    IN IF Len(ids) = 0
       THEN [ents |-> <<>>, err |-> IF IsUnique(x) THEN "NotFound" ELSE "ok", e |-> e]
       ELSE LoadByIndexLoop(root, e, limitIds(ids, limit), 1,
                            [ents |-> <<>>, err |-> "ok", e |-> e])

\* ent.LoadEntByIndexKey on the result r of the storage's LoadByIndex (limit 1):
\* the error it returns
LoadEntByIndexKey(r) ==
    IF r.err # "ok" THEN r.err
    ELSE IF Len(r.ents) = 0 THEN "NotFound"
    ELSE IF r.ents[1].obj # "e" THEN "InternalStorageError"
    ELSE "ok"

\* the key the generated code encodes for a kind: c.Int(int64(kind), 32)
KindKey(kind) == Uint32BE(kind)

\* the name a lookup of ids has in res: by the index it reads
FindOp(x) == IF x = EntIndexes[1] THEN "findByEmail" ELSE "findByKind"

\* ent.FindIdsByIndexKey(s, "account", x, key, limit): the storage's FindByIndex
FindIdsByIndexKey(h, x, key, limit) ==
    /\ pc[h] = "idle"
    /\ MuFree(mu)
    /\ LET r == MemFindByIndex(m, x, key, limit)
       IN /\ call' = [call EXCEPT ![h] = [NoCall EXCEPT !.ids = r.ids]]
          /\ Return(h, FindOp(x), r.err)
    /\ UNCHANGED <<idgen, mu, m, ent, pc, handed, program>>

\* the generated LoadAccountByEmail(s, email): a new Account is passed as e
LoadAccountByEmail(h, email) ==
    /\ pc[h] = "idle"
    /\ MuFree(mu)
    /\ LET r == LoadByIndex(m, ZeroAccount, EntIndexes[1], email, 1)
       IN /\ ent' = [ent EXCEPT ![h] = r.e]
          /\ call' = [call EXCEPT ![h] = [NoCall EXCEPT !.ents = r.ents]]
          /\ Return(h, "loadByEmail", LoadEntByIndexKey(r))
    /\ UNCHANGED <<idgen, mu, m, pc, handed, program>>

\* the generated LoadAccountByKind(s, kind, limit): ent.LoadEntsByIndex with a
\* new Account as e; the caller keeps the slice
LoadAccountByKind(h, kind, limit) ==
    /\ pc[h] = "idle"
    /\ MuFree(mu)
    /\ LET r == LoadByIndex(m, ZeroAccount, EntIndexes[2], KindKey(kind), limit)
       IN /\ ent' = [ent EXCEPT ![h] = r.e]
          /\ call' = [call EXCEPT ![h] = [NoCall EXCEPT !.ents = r.ents]]
          /\ Return(h, "loadByKind", r.err)
    /\ UNCHANGED <<idgen, mu, m, pc, handed, program>>

(***************************************************************************)
(* mem.EntStorage.IterateEnts and EntIterator.Next                         *)
(***************************************************************************)
\* strings.HasPrefix
HasPrefix(k, prefix) == Len(k) >= Len(prefix) /\ SubSeq(k, 1, Len(prefix)) = prefix

\* the keys of the root map that start with the type name and ":"
EntKeysOf(root) == {k \in DOMAIN root : HasPrefix(k, EntTypeName \o <<58>>)}

\* the orders in which "for k := range s.m.m" can visit a set of keys
RangeOrders(keys) ==
    {s \in [1..Cardinality(keys) -> keys] : \A i, j \in 1..Cardinality(keys) : i # j => s[i] # s[j]}

\* IdIterator.init: "id, _ := strconv.ParseUint(k[len(keyPrefix):], 10, 64)", an
\* id that does not parse is 0
IdOfKey(k) ==
    LET v == ParseUint(SubSeq(k, Len(EntTypeName) + 2, Len(k)), 10)
    IN IF v < 0 THEN 0 ELSE v

\* NoCall.it: an iterator that holds no ids and no error
NoIterator == NoCall.it

\* for it.Next(e): IterateEnts(&Account{}) and the e the loop passes to Next
IterateEnts(h) ==
    /\ pc[h] = "idle"
    /\ MuFree(mu)
    /\ \E order \in RangeOrders(EntKeysOf(m)) :
         call' = [call EXCEPT ![h] =
             [NoCall EXCEPT !.op = "iterate",
                            !.it = [NoIterator EXCEPT
                                      !.ids = [i \in 1..Len(order) |-> IdOfKey(order[i])],
                                      !.len = Len(order)]]]
    /\ ent' = [ent EXCEPT ![h] = ZeroAccount]
    /\ pc' = [pc EXCEPT ![h] = "iter"]
    /\ res' = [res EXCEPT ![h] = NoRes]
    /\ UNCHANGED <<idgen, mu, m, handed, program>>

\* an iterator that ends the iteration at an id that is not found
StopOnNotFound(err) == FALSE

\* "if err != ent.ErrNotFound { ... return false } // if not found, just keep going"
KeepGoing(err) == err = "NotFound"

\* one pass of the loop of EntIterator.Next(e).  IdIterator.Next takes the id
\* at the end of it.ids ("it.ids = it.ids[:len(it.ids)-1]"), LoadById reads
\* under s.mu.RLock().  The pass ends the iteration (Next returns false, the
\* caller reads it.Err()), returns an ent (Next returns true), or goes on to
\* the next id.  call[h].ids collects the ids of the ents Next returned.
\* Next calls the storage's LoadById, whose entKey panics for the id 0: the
\* iteration ends with the panic.
EntIteratorNext(h) ==
    /\ pc[h] = "iter"
    /\ LET it == call[h].it
           n == it.len
       IN IF n = 0
          THEN /\ pc' = [pc EXCEPT ![h] = "idle"]
               /\ Return(h, "iterate", it.err)
               /\ UNCHANGED <<ent, call>>
          ELSE /\ MuFree(mu)
               /\ LET id == it.ids[n]
                      r == IF id = 0 THEN [err |-> "panic: zero id", e |-> ent[h]]
                           ELSE LoadEntById(m, ent[h], id)
                  IN IF r.err = "ok"
                     THEN /\ ent' = [ent EXCEPT ![h] = r.e]
                          /\ call' = [call EXCEPT ![h].it.len = n - 1,
                                                  ![h].ids = Append(@, id)]
                          /\ Return(h, "next", "ok")
                          /\ UNCHANGED pc
                     ELSE IF ~KeepGoing(r.err)
                     THEN /\ call' = [call EXCEPT ![h].it.len = n - 1, ![h].it.err = r.err]
                          /\ pc' = [pc EXCEPT ![h] = "idle"]
                          /\ Return(h, "iterate", r.err)
                          /\ UNCHANGED ent
                     ELSE /\ call' = [call EXCEPT ![h].it.len = n - 1]
                          /\ UNCHANGED <<ent, pc, res>>
    /\ UNCHANGED <<idgen, mu, m, handed, program>>

(***************************************************************************)
(* EntStorage.putEnt after the version check, step by step: the index      *)
(* changes are staged in a new scope of s.m, the scope is applied to the   *)
(* root map, the payload is written, the lock is released.                 *)
(***************************************************************************)
\* "m := s.m.NewScope()" and updateIndexes; an error is returned
PutFork(h) ==
    /\ pc[h] = "locked"
    /\ LET c == call[h]
           r == updateIndexes(m, c.prevEnt, <<ent[h]>>, c.id, c.changedFields, EmptyMap)
       IN IF r.err # "ok"
          THEN /\ mu' = NoOwner
               /\ pc' = [pc EXCEPT ![h] = "idle"]
               /\ call' = [call EXCEPT ![h] = NoCall]
               /\ ent' = [ent EXCEPT ![h] = AfterPut(@, c, r.err)]
               /\ Return(h, c.op, r.err)
          ELSE /\ call' = [call EXCEPT ![h].scope = r.scope]
               /\ pc' = [pc EXCEPT ![h] = "forked"]
               /\ UNCHANGED <<mu, ent, res>>
    /\ UNCHANGED <<idgen, m, handed, program>>

\* "m.ApplyToOuter()"
PutApplyToOuter(h) ==
    /\ pc[h] = "forked"
    /\ m' = ApplyToOuter(call[h].scope, m)
    /\ pc' = [pc EXCEPT ![h] = "applied"]
    /\ UNCHANGED <<idgen, mu, ent, call, res, handed, program>>

\* "s.m.Put(key, json)", the deferred s.mu.Unlock() and the caller's epilogue
PutWrite(h) ==
    /\ pc[h] = "applied"
    /\ LET c == call[h]
       IN /\ m' = RootPut(m, entKey(EntTypeName, c.id), c.json)
          /\ ent' = [ent EXCEPT ![h] = AfterPut(@, c, "ok")]
          /\ Return(h, c.op, "ok")
    /\ mu' = NoOwner
    /\ pc' = [pc EXCEPT ![h] = "idle"]
    /\ call' = [call EXCEPT ![h] = NoCall]
    /\ UNCHANGED <<idgen, handed, program>>

(***************************************************************************)
(* One caller writes, the other looks up and iterates.                     *)
(***************************************************************************)
Writer == "h1"
Reader == "h2"

\* the accounts the storage of InitReaders holds: emails "a" and "b", kind 0
ReadersAccount(id) == NewAccount(<<>>, IF id = 1 THEN <<97>> ELSE <<98>>, 0)

\* the root map after Create of an account that returned nil
Created(root, e, id) ==
    PutEnd(root, <<>>, e, id, EntFieldsOf(e), JsonEncodeEnt(e, id, 1, EntFieldsOf(e))).root

\* the emails, the limits and the index keys the callers pass
ReadersEmails == {<<98>>}
Limits == {0, 1}
LookupEmails == {<<97>>, <<98>>}

\* a storage in which two accounts were created
InitReaders ==
    /\ idgen = 2
    /\ mu = NoOwner
    /\ m = Created(Created(EmptyMap, ReadersAccount(1), 1), ReadersAccount(2), 2)
    /\ ent = [h \in Handles |-> ZeroAccount]
    /\ pc = [h \in Handles |-> "idle"]
    /\ call = [h \in Handles |-> NoCall]
    /\ res = [h \in Handles |-> NoRes]
    /\ handed = <<1, 2>>
    /\ program = "readers"

NextReaders ==
    \/ \E id \in Ids : LoadAccountById(Writer, id)
    \/ \E v \in ReadersEmails : SetEmail(Writer, v)
    \/ SetKind(Writer, 1)
    \/ SaveEnt(Writer)
    \/ PutFork(Writer)
    \/ PutApplyToOuter(Writer)
    \/ PutWrite(Writer)
    \/ DeleteEnt(Writer)
    \/ \E email \in LookupEmails : FindIdsByIndexKey(Reader, EntIndexes[1], email, 0)
    \/ \E kind \in Kinds : FindIdsByIndexKey(Reader, EntIndexes[2], KindKey(kind), 0)
    \/ \E email \in LookupEmails : LoadAccountByEmail(Reader, email)
    \/ \E kind \in Kinds, limit \in Limits : LoadAccountByKind(Reader, kind, limit)
    \/ IterateEnts(Reader)
    \/ EntIteratorNext(Reader)

SpecReaders == InitReaders /\ [][NextReaders]_vars

(***************************************************************************)
(* redis.EntStorage: index lookups and iteration.  A call that sends more  *)
(* than one read to the server takes one step per read.                    *)
(***************************************************************************)
\* ent.FindIdsByIndexKey on a redis storage: FindByIndex (GET or ZRANGEBYLEX)
RedisFindIdsByIndexKey(h, x, key, limit) ==
    /\ pc[h] = "idle"
    /\ LET r == RedisFindByIndex(m, x, key, limit)
       IN /\ call' = [call EXCEPT ![h] = [NoCall EXCEPT !.ids = r.ids]]
          /\ Return(h, FindOp(x), r.err)
    /\ UNCHANGED <<idgen, mu, m, ent, pc, handed, program>>

\* redis EntStorage.LoadByIndex up to the pipeline: FindByIndex, and an ent
\* object for every id, e for the first.  "if err != nil || len(ids) == 0"
\* returns nil and the error.  op names the generated function that calls
RedisLoadByIndexBegin(h, op, x, key, limit) ==
    /\ pc[h] = "idle"
    /\ LET r == RedisFindByIndex(m, x, key, limit)
       IN IF r.err # "ok" \/ Len(r.ids) = 0
          THEN /\ call' = [call EXCEPT ![h] = NoCall]
               /\ Return(h, op, IF op = "loadByEmail"
                                THEN LoadEntByIndexKey([ents |-> <<>>, err |-> r.err])
                                ELSE r.err)
               /\ UNCHANGED pc
          ELSE /\ call' = [call EXCEPT ![h] =
                     [NoCall EXCEPT !.op = op, !.ids = r.ids,
                                    !.ents = [i \in 1..Len(r.ids) |->
                                                [obj |-> LoadTarget(i), e |-> ZeroAccount]]]]
               /\ pc' = [pc EXCEPT ![h] = "pipeline"]
               /\ UNCHANGED res
    /\ ent' = [ent EXCEPT ![h] = ZeroAccount]
    /\ UNCHANGED <<idgen, mu, m, handed, program>>

RECURSIVE RedisLoadPipeline(_, _, _, _)
\* the pipeline of the load commands of LoadByIndex: acc is [ents, err].  The
\* commands are decoded in order, up to the first that returns an error
RedisLoadPipeline(root, ids, i, acc) ==
    IF i > Len(ids) THEN acc
    ELSE LET r == RedisLoadById(root, acc.ents[i].e, ids[i])
             ents == [acc.ents EXCEPT ![i].e = r.e]
         IN IF r.err # "ok" THEN [ents |-> ents, err |-> r.err]
            ELSE RedisLoadPipeline(root, ids, i + 1, [ents |-> ents, err |-> "ok"])

\* the pipeline and the return of LoadByIndex to the generated function
RedisLoadByIndexEnd(h) ==
    /\ pc[h] = "pipeline"
    /\ LET c == call[h]
           r == RedisLoadPipeline(m, c.ids, 1, [ents |-> c.ents, err |-> "ok"])
       IN /\ call' = [call EXCEPT ![h] = [NoCall EXCEPT !.ents = r.ents]]
          /\ ent' = [ent EXCEPT ![h] =
                IF LoadTarget(1) = "e" THEN r.ents[1].e ELSE @]
          /\ Return(h, c.op, IF c.op = "loadByEmail" THEN LoadEntByIndexKey(r) ELSE r.err)
    /\ pc' = [pc EXCEPT ![h] = "idle"]
    /\ UNCHANGED <<idgen, mu, m, handed, program>>

\* the generated LoadAccountByEmail and LoadAccountByKind on a redis storage
RedisLoadAccountByEmail(h, email) ==
    RedisLoadByIndexBegin(h, "loadByEmail", EntIndexes[1], email, 1)

RedisLoadAccountByKind(h, kind, limit) ==
    RedisLoadByIndexBegin(h, "loadByKind", EntIndexes[2], KindKey(kind), limit)

\* the ent keys SCAN cursor MATCH "account:*" finds
RedisEntKeysOf(root) == EntKeysOf(root)

\* parseHexUint of the part of an ent key after "account:"
RedisIdOfKey(k) == ParseUint(SubSeq(k, Len(EntTypeName) + 2, Len(k)), 16)

\* redis IterateEnts -> MakeEntIterator: IdIterator.init sets the cursor to "0"
\* and sends nothing
RedisIterateEnts(h) ==
    /\ pc[h] = "idle"
    /\ call' = [call EXCEPT ![h] =
          [NoCall EXCEPT !.op = "iterate", !.it = [NoIterator EXCEPT !.cursor = TRUE]]]
    /\ ent' = [ent EXCEPT ![h] = ZeroAccount]
    /\ pc' = [pc EXCEPT ![h] = "iter"]
    /\ res' = [res EXCEPT ![h] = NoRes]
    /\ UNCHANGED <<idgen, mu, m, handed, program>>

\* IdIterator.fetchMore, called by Next when idbuf is empty and the cursor is
\* not nil: SCAN either fails (ioErr) or replies with cursor "0" and every
\* matching key, in an order the server chooses (the keyspace is small: one
\* SCAN visits all of its buckets).  With no ids after it, Next returns false
RedisFetchMore(h, ioErr) ==
    /\ pc[h] = "iter"
    /\ call[h].it.len = 0 /\ call[h].it.cursor
    /\ IF ioErr
       THEN /\ call' = [call EXCEPT ![h].it = [NoIterator EXCEPT !.err = "IOError"]]
            /\ pc' = [pc EXCEPT ![h] = "idle"]
            /\ Return(h, "iterate", "IOError")
       ELSE \E order \in RangeOrders(RedisEntKeysOf(m)) :
              /\ call' = [call EXCEPT ![h].it =
                    [NoIterator EXCEPT
                       !.ids = [i \in 1..Len(order) |-> RedisIdOfKey(order[i])],
                       !.len = Len(order)]]
              /\ IF Len(order) = 0
                 THEN pc' = [pc EXCEPT ![h] = "idle"] /\ Return(h, "iterate", "ok")
                 ELSE UNCHANGED <<pc, res>>
    /\ UNCHANGED <<idgen, mu, m, ent, handed, program>>

\* one pass of the loop of the redis EntIterator.Next(e) that has ids in idbuf
\* or a nil cursor: LoadById either fails (ioErr) or decodes the reply of
\* HGETALL
RedisEntIteratorNext(h, ioErr) ==
    /\ pc[h] = "iter"
    /\ LET it == call[h].it
           n == it.len
       IN IF n = 0
          THEN /\ ~it.cursor
               /\ ~ioErr
               /\ pc' = [pc EXCEPT ![h] = "idle"]
               /\ Return(h, "iterate", it.err)
               /\ UNCHANGED <<ent, call>>
          ELSE LET id == it.ids[n]
                   r == IF ioErr THEN [err |-> "IOError", e |-> ent[h]]
                        ELSE RedisLoadById(m, ent[h], id)
               IN /\ ent' = [ent EXCEPT ![h] = r.e]
                  /\ IF r.err = "ok"
                     THEN /\ call' = [call EXCEPT ![h].it.len = n - 1,
                                                  ![h].ids = Append(@, id)]
                          /\ Return(h, "next", "ok")
                          /\ UNCHANGED pc
                     ELSE IF ~KeepGoing(r.err)
                     THEN /\ call' = [call EXCEPT ![h].it.len = n - 1, ![h].it.err = r.err]
                          /\ pc' = [pc EXCEPT ![h] = "idle"]
                          /\ Return(h, "iterate", r.err)
                     ELSE /\ call' = [call EXCEPT ![h].it.len = n - 1]
                          /\ UNCHANGED <<pc, res>>
    /\ UNCHANGED <<idgen, mu, m, handed, program>>

\* the keyspace after Create of an account that returned nil
RedisCreated(root, e, id) ==
    RedisRunAll(root,
        computeIndexEdits(root, <<>>, <<e>>, id, AllFields,
            [err |-> "ok",
             cmds |-> <<RedisCmd("HSET", makeEntKey(EntTypeName, id), encodeEntHSET(e, 1, AllFields))>>,
             watchKeys |-> {}]).cmds)

\* a redis server on which two accounts were created
InitRedisReaders ==
    /\ idgen = 2
    /\ mu = NoOwner
    /\ m = RedisCreated(RedisCreated(EmptyMap, ReadersAccount(1), 1), ReadersAccount(2), 2)
    /\ ent = [h \in Handles |-> ZeroAccount]
    /\ pc = [h \in Handles |-> "idle"]
    /\ call = [h \in Handles |-> NoCall]
    /\ res = [h \in Handles |-> NoRes]
    /\ handed = <<1, 2>>
    /\ program = "redisreaders"

NextRedisReaders ==
    \/ \E id \in Ids : RedisLoadAccountById(Writer, id)
    \/ RedisDelete(Writer)
    \/ RedisExec(Writer)
    \/ \E email \in LookupEmails : RedisFindIdsByIndexKey(Reader, EntIndexes[1], email, 0)
    \/ \E kind \in Kinds : RedisFindIdsByIndexKey(Reader, EntIndexes[2], KindKey(kind), 0)
    \/ \E email \in LookupEmails : RedisLoadAccountByEmail(Reader, email)
    \/ \E kind \in Kinds, limit \in Limits : RedisLoadAccountByKind(Reader, kind, limit)
    \/ RedisLoadByIndexEnd(Reader)
    \/ RedisIterateEnts(Reader)
    \/ \E ioErr \in BOOLEAN : RedisFetchMore(Reader, ioErr)
    \/ \E ioErr \in BOOLEAN : RedisEntIteratorNext(Reader, ioErr)

SpecRedisReaders == InitRedisReaders /\ [][NextRedisReaders]_vars

\* the lookups and iterations of either backend
InitLookups == InitReaders \/ InitRedisReaders

NextLookups ==
    \/ program = "readers" /\ NextReaders
    \/ program = "redisreaders" /\ NextRedisReaders

SpecLookups == InitLookups /\ [][NextLookups]_vars

(***************************************************************************)
(* C12: a lookup on the unique index (email) for a key that has no entry   *)
(* returns ErrNotFound, not an empty result; the same lookup on the        *)
(* non-unique index (kind) returns an empty list and no error.  This is    *)
(* stated of the lookup of ids (FindByIndex) and of the lookup that loads  *)
(* (LoadByIndex).                                                          *)
(* C12_MissingKey states it of both lookups of the in-memory storage,      *)
(* C12_LoadMissingKey of its LoadByIndex alone.                            *)
(***************************************************************************)
\* no entry of index x is stored under key
NoEntry(root, x, key) == indexGet(root, EntTypeName, x.Name, key) = <<>>

C12_LoadMissingKey ==
    [][\A h \in Handles :
        /\ \A email \in LookupEmails :
             (NoEntry(m, EntIndexes[1], email) /\ LoadAccountByEmail(h, email))
             => (res'[h].err = "NotFound" /\ call'[h].ents = <<>>)
        /\ \A kind \in Kinds, limit \in Limits :
             (NoEntry(m, EntIndexes[2], KindKey(kind)) /\ LoadAccountByKind(h, kind, limit))
             => (res'[h].err = "ok" /\ call'[h].ents = <<>>)]_vars

C12_MissingKey ==
    [][\A h \in Handles :
        /\ \A email \in LookupEmails :
             /\ (NoEntry(m, EntIndexes[1], email)
                   /\ FindIdsByIndexKey(h, EntIndexes[1], email, 0))
                => res'[h].err = "NotFound"
             /\ (NoEntry(m, EntIndexes[1], email) /\ LoadAccountByEmail(h, email))
                => (res'[h].err = "NotFound" /\ call'[h].ents = <<>>)
        /\ \A kind \in Kinds :
             /\ (NoEntry(m, EntIndexes[2], KindKey(kind))
                   /\ FindIdsByIndexKey(h, EntIndexes[2], KindKey(kind), 0))
                => (res'[h].err = "ok" /\ call'[h].ids = <<>>)
             /\ \A limit \in Limits :
                  (NoEntry(m, EntIndexes[2], KindKey(kind)) /\ LoadAccountByKind(h, kind, limit))
                  => (res'[h].err = "ok" /\ call'[h].ents = <<>>)]_vars

\* the account with email "a" was deleted; the lookup of ids by an email that
\* has no entry returned an empty list and no error
C12_Witness ==
    /\ program = "readers"
    /\ ResIs(Writer, "delete", "ok")
    /\ ResIs(Reader, "findByEmail", "ok")
    /\ call[Reader].ids = <<>>
    /\ \E email \in LookupEmails : NoEntry(m, EntIndexes[1], email)
    /\ \A email \in LookupEmails :
          ~NoEntry(m, EntIndexes[1], email) => IsStored(m, FindAccountByEmail(m, email).id)

\* no entry of index x is stored under key on a redis storage
RedisNoEntry(root, x, key) == RedisFindByIndex(root, x, key, 0).ids = <<>>

\* C12 on the redis storage: both lookups return ErrNotFound for a key of the
\* unique index that has no entry, and an empty list and no error for a key
\* of the non-unique index that has none
C12_RedisMissingKey ==
    [][\A h \in Handles :
        /\ \A email \in LookupEmails :
             /\ (RedisNoEntry(m, EntIndexes[1], email)
                   /\ RedisFindIdsByIndexKey(h, EntIndexes[1], email, 0))
                => res'[h].err = "NotFound"
             /\ (RedisNoEntry(m, EntIndexes[1], email) /\ RedisLoadAccountByEmail(h, email))
                => (res'[h].err = "NotFound" /\ call'[h].ents = <<>>)
        /\ \A kind \in Kinds :
             /\ (RedisNoEntry(m, EntIndexes[2], KindKey(kind))
                   /\ RedisFindIdsByIndexKey(h, EntIndexes[2], KindKey(kind), 0))
                => (res'[h].err = "ok" /\ call'[h].ids = <<>>)
             /\ \A limit \in Limits :
                  (RedisNoEntry(m, EntIndexes[2], KindKey(kind))
                     /\ RedisLoadAccountByKind(h, kind, limit))
                  => (res'[h].err = "ok" /\ call'[h].ents = <<>>)]_vars

\* on a redis storage the account with email "a" was deleted and the lookup
\* of ids by that email returned ErrNotFound
C12_RedisWitness ==
    /\ program = "redisreaders"
    /\ ResIs(Writer, "delete", "ok")
    /\ ResIs(Reader, "findByEmail", "NotFound")
    /\ RedisNoEntry(m, EntIndexes[1], <<97>>)
    /\ ~RedisIsStored(m, 1)

(***************************************************************************)
(* C13: the set of changed fields of an ent (EntBase.fieldmap) is empty    *)
(* right after a create, a save or a load that returned nil; it contains   *)
(* field i right after the setter of field i was called (and the fields it *)
(* held before); and a save that returns an error leaves it as it was.     *)
(***************************************************************************)
C13_ChangedFields ==
    [][\A h \in Handles :
        /\ (PutCommit(h) /\ res'[h].err = "ok") => ent'[h].fieldmap = {}
        /\ \A id \in Ids :
             (LoadAccountById(h, id) /\ res'[h].err = "ok") => ent'[h].fieldmap = {}
        /\ (Reload(h) /\ res'[h].err = "ok") => ent'[h].fieldmap = {}
        /\ \A v \in Emails \cup SharedEmails :
             SetEmail(h, v) => ent'[h].fieldmap = ent[h].fieldmap \cup {ent_Account_f_email}
        /\ \A v \in Names :
             SetName(h, v) => ent'[h].fieldmap = ent[h].fieldmap \cup {ent_Account_f_name}
        /\ (SaveEnt(h) /\ pc'[h] = "idle") => ent'[h].fieldmap = ent[h].fieldmap
        /\ (PutCommit(h) /\ call[h].op = "save" /\ res'[h].err # "ok")
           => (ent[h].fieldmap # {} /\ ent'[h].fieldmap = ent[h].fieldmap)]_vars

\* a caller loaded the account, called two setters and saved: the save
\* returned ErrUniqueConflict or ErrVersionConflict and both fields are
\* still marked as changed
C13_Witness ==
    \E h \in Handles :
        /\ res[h].op = "save"
        /\ res[h].err \in {"UniqueConflict", "VersionConflict"}
        /\ ent[h].storage
        /\ ent[h].fieldmap = {ent_Account_f_name, ent_Account_f_email}

(***************************************************************************)
(* C14: Save of an ent that has a storage and no changed fields returns    *)
(* ErrNotChanged and does not call the storage: the root map, and with it  *)
(* the stored payload and the stored version of the ent, are after the     *)
(* call what they were before it, and so is the caller's ent.              *)
(***************************************************************************)
C14_UnchangedSaveNotChanged ==
    [][\A h \in Handles :
        (/\ pc[h] = "idle"
         /\ ent[h].storage
         /\ ent[h].fieldmap = {}
         /\ SaveEnt(h))
        => /\ res'[h].op = "save" /\ res'[h].err = "NotChanged"
           /\ pc'[h] = "idle"
           /\ mu' = mu
           /\ m' = m
           /\ StoredData(m', ent[h].id) = StoredData(m, ent[h].id)
           /\ ent'[h] = ent[h]]_vars

\* a caller loaded the account and saved it without a change: ErrNotChanged,
\* and the stored version is the one it loaded
C14_Witness ==
    \E h \in Handles :
        /\ ResIs(h, "save", "NotChanged")
        /\ ent[h].storage /\ ent[h].fieldmap = {}
        /\ IsStored(m, ent[h].id)
        /\ StoredVersion(m, ent[h].id) = ent[h].version
        /\ StoredEnt(m, ent[h].id).email = ent[h].email

(***************************************************************************)
(* C15: whenever the result of LoadByIndex is not empty, its first element *)
(* is the ent object the caller passed as e, loaded with the first id, and *)
(* every further element is a new object; so ent.LoadEntByIndexKey never   *)
(* reports "LoadByIndex did not update e".  This is stated of the          *)
(* in-memory and of the redis storage.                                     *)
(***************************************************************************)
\* in the result ents the first element is the object e, which holds what
\* the element says, and the others are new objects
FirstIsOutputParameter(ents, e) ==
    /\ ents[1].obj = "e"
    /\ ents[1].e = e
    /\ \A i \in 2..Len(ents) : ents[i].obj = "new"

C15_FirstResultIsOutputParameter ==
    [][\A h \in Handles :
        /\ program = "readers" =>
             /\ \A email \in LookupEmails :
                  LoadAccountByEmail(h, email)
                  => /\ res'[h].err # "InternalStorageError"
                     /\ call'[h].ents # <<>> => FirstIsOutputParameter(call'[h].ents, ent'[h])
             /\ \A kind \in Kinds, limit \in Limits :
                  (LoadAccountByKind(h, kind, limit) /\ call'[h].ents # <<>>)
                  => FirstIsOutputParameter(call'[h].ents, ent'[h])
        /\ (program = "redisreaders" /\ RedisLoadByIndexEnd(h))
           => /\ res'[h].err # "InternalStorageError"
              /\ call'[h].ents # <<>>
              /\ FirstIsOutputParameter(call'[h].ents, ent'[h])]_vars

\* LoadAccountByKind returned both accounts of the in-memory storage: the
\* first in the object passed, the second in a new one
C15_Witness ==
    /\ program = "readers"
    /\ ResIs(Reader, "loadByKind", "ok")
    /\ Len(call[Reader].ents) = 2
    /\ call[Reader].ents[1].obj = "e" /\ call[Reader].ents[2].obj = "new"
    /\ call[Reader].ents[1].e.id # call[Reader].ents[2].e.id
    /\ \A i \in 1..2 : IsStored(m, call[Reader].ents[i].e.id)
    /\ ent[Reader] = call[Reader].ents[1].e

\* the same on the redis storage
C15_RedisWitness ==
    /\ program = "redisreaders"
    /\ ResIs(Reader, "loadByKind", "ok")
    /\ Len(call[Reader].ents) = 2
    /\ call[Reader].ents[1].obj = "e" /\ call[Reader].ents[2].obj = "new"
    /\ call[Reader].ents[1].e.id # call[Reader].ents[2].e.id
    /\ ent[Reader] = call[Reader].ents[1].e

(***************************************************************************)
(* C16: an iteration over the ents of a type tolerates ids that vanish     *)
(* between enumeration and load.  A pass of EntIterator.Next whose id is   *)
(* not stored any more (it was deleted after the iterator enumerated it)   *)
(* reports nothing and goes on with the remaining ids; a pass whose id is  *)
(* stored returns that ent; a pass whose load fails with another error     *)
(* (an I/O error of the redis client) ends the iteration, and it.Err()     *)
(* returns the error.  An iteration that ends without an error has         *)
(* returned every ent that is stored when it ends.  This is stated of the  *)
(* in-memory and of the redis storage.                                     *)
(***************************************************************************)
\* the id the next pass of the loop of Next takes
NextIterId(h) == call[h].it.ids[call[h].it.len]

\* the pass skips its id: nothing is reported, the iteration goes on with
\* the ids before it
IterSkips(h) ==
    /\ pc'[h] = "iter"
    /\ res'[h] = res[h]
    /\ call'[h].it.err = "ok"
    /\ call'[h].it.ids = call[h].it.ids
    /\ call'[h].it.len = call[h].it.len - 1
    /\ call'[h].ids = call[h].ids

\* the pass returns the ent of its id
IterReturns(h) ==
    /\ pc'[h] = "iter"
    /\ res'[h].op = "next" /\ res'[h].err = "ok"
    /\ ent'[h].id = NextIterId(h) /\ ent'[h].storage
    /\ call'[h].it.err = "ok"
    /\ call'[h].it.len = call[h].it.len - 1
    /\ call'[h].ids = Append(call[h].ids, NextIterId(h))

\* the pass ends the iteration with the error err
IterFails(h, err) ==
    /\ pc'[h] = "idle"
    /\ res'[h].op = "iterate" /\ res'[h].err = err
    /\ call'[h].it.err = err

C16_IterationSkipsVanishedIds ==
    [][\A h \in Handles :
        /\ (program = "readers" /\ EntIteratorNext(h))
           => IF call[h].it.len = 0
              THEN /\ res'[h].op = "iterate" /\ res'[h].err = "ok"
                   /\ \A id \in Ids : IsStored(m, id) => InSeq(id, call[h].ids)
              ELSE IF IsStored(m, NextIterId(h))
              THEN /\ IterReturns(h)
                   /\ ent'[h].version = StoredVersion(m, NextIterId(h))
              ELSE IterSkips(h)
        /\ program = "redisreaders" =>
             \A ioErr \in BOOLEAN :
                RedisEntIteratorNext(h, ioErr)
                => IF call[h].it.len = 0
                   THEN /\ res'[h].op = "iterate" /\ res'[h].err = "ok"
                        /\ \A id \in Ids : RedisIsStored(m, id) => InSeq(id, call[h].ids)
                   ELSE IF ioErr THEN IterFails(h, "IOError")
                   ELSE IF RedisIsStored(m, NextIterId(h))
                   THEN /\ IterReturns(h)
                        /\ ent'[h].version = RedisStoredVersion(m, NextIterId(h))
                   ELSE IterSkips(h)]_vars

\* the iterator of the in-memory storage enumerated both accounts; one was
\* deleted before its pass: the iteration returned the other and ended
\* without an error
C16_Witness ==
    \E i, j \in Ids :
        /\ program = "readers"
        /\ i # j
        /\ ResIs(Reader, "iterate", "ok")
        /\ Len(call[Reader].it.ids) = 2 /\ call[Reader].it.len = 0
        /\ call[Reader].ids = <<i>>
        /\ IsStored(m, i) /\ ~IsStored(m, j)
        /\ ResIs(Writer, "delete", "ok")

\* the same on the redis storage
C16_RedisWitness ==
    \E i, j \in Ids :
        /\ program = "redisreaders"
        /\ i # j
        /\ ResIs(Reader, "iterate", "ok")
        /\ Len(call[Reader].it.ids) = 2 /\ call[Reader].it.len = 0
        /\ call[Reader].ids = <<i>>
        /\ RedisIsStored(m, i) /\ ~RedisIsStored(m, j)

\* the load of the second id of a redis iteration failed: the iteration
\* ended after one ent and the iterator holds the error
C16_RedisErrorWitness ==
    /\ program = "redisreaders"
    /\ ResIs(Reader, "iterate", "IOError")
    /\ call[Reader].it.err = "IOError"
    /\ Len(call[Reader].it.ids) = 2 /\ call[Reader].it.len = 0
    /\ Len(call[Reader].ids) = 1

(***************************************************************************)
(* C17 (in-memory backend): the state of a write that is in progress, its  *)
(* index changes staged in the scope or already applied to the root map    *)
(* while the payload is not yet written, is never visible to a reader.     *)
(* Every load by id, index lookup and pass of an iterator runs while no    *)
(* putEnt is between its Lock and its Unlock, and the root map it reads    *)
(* holds payloads and index entries that belong together: the state before *)
(* the write or the state after its commit.                                *)
(***************************************************************************)
\* the payloads and the index entries of a root map belong together: every
\* stored ent is found under its email and its kind, and every id an index
\* entry holds is that of a stored ent with this email or kind
PayloadsMatchIndexes(root) ==
    /\ \A id \in Ids :
          IsStored(root, id)
          => /\ StoredEnt(root, id).email # <<>>
                => indexGet(root, EntTypeName, EntIndexes[1].Name, StoredEnt(root, id).email) = <<id>>
             /\ InSeq(id, indexGet(root, EntTypeName, EntIndexes[2].Name,
                                   KindKey(StoredEnt(root, id).kind)))
    /\ \A email \in LookupEmails :
          LET ids == indexGet(root, EntTypeName, EntIndexes[1].Name, email)
          IN \A i \in 1..Len(ids) :
                IsStored(root, ids[i]) /\ StoredEnt(root, ids[i]).email = email
    /\ \A kind \in Kinds :
          LET ids == indexGet(root, EntTypeName, EntIndexes[2].Name, KindKey(kind))
          IN \A i \in 1..Len(ids) :
                IsStored(root, ids[i]) /\ StoredEnt(root, ids[i]).kind = kind

\* caller h reads the root map: a load by id, an index lookup, the
\* enumeration or a load of an iterator
ReadStep(h) ==
    \/ \E id \in Ids : LoadAccountById(h, id)
    \/ \E email \in LookupEmails : FindIdsByIndexKey(h, EntIndexes[1], email, 0)
    \/ \E kind \in Kinds : FindIdsByIndexKey(h, EntIndexes[2], KindKey(kind), 0)
    \/ \E email \in LookupEmails : LoadAccountByEmail(h, email)
    \/ \E kind \in Kinds, limit \in Limits : LoadAccountByKind(h, kind, limit)
    \/ IterateEnts(h)
    \/ EntIteratorNext(h) /\ call[h].it.len > 0

\* a putEnt is between s.mu.Lock() and its return
WriteInProgress == \E g \in Handles : pc[g] \in {"locked", "forked", "applied"}

\* (stated from the state read: where a write is in progress or the payloads
\* and the index entries do not belong together, no step is a read)
C17_ReadersSeeCommittedState ==
    [][(WriteInProgress \/ mu # NoOwner \/ ~PayloadsMatchIndexes(m))
        => \A h \in Handles : ~ReadStep(h)]_vars

\* the index changes of a save are applied to the root map and its payload
\* is not yet written (the ent is found under an email or kind its payload
\* does not hold), while the other caller, who has read before, waits
C17_Witness ==
    /\ program = "readers"
    /\ pc[Writer] = "applied"
    /\ mu = Writer
    /\ ~PayloadsMatchIndexes(m)
    /\ pc[Reader] = "idle"
    /\ res[Reader].op \in {"loadByEmail", "loadByKind"} /\ res[Reader].err = "ok"
    /\ ~ENABLED ReadStep(Reader)

(***************************************************************************)
(* A ScopedMap and one scope forked from it (mem/scopedmap_test.go): the   *)
(* caller puts and deletes in the root map m, forks a scope, puts and      *)
(* deletes in the scope and applies the scope to the root map.  The calls  *)
(* made so far are kept in call[h].cmds.                                   *)
(***************************************************************************)
MaxMapOps == 2

\* "a", "b", "c"
MapKeys == {<<97>>, <<98>>, <<99>>}

\* nil, []byte{} and the values of the test
MapValues == {Nil, BytesValue(<<>>)} \cup {BytesValue(k) : k \in MapKeys}

MapCall(op, key, value) == [op |-> op, key |-> key, value |-> value]

\* the number of calls made since the last NewScope, or in all
MapOpsSince(cmds) ==
    IF \E i \in 1..Len(cmds) : cmds[i].op = "NewScope"
    THEN Len(cmds) - (CHOOSE i \in 1..Len(cmds) : cmds[i].op = "NewScope")
    ELSE Len(cmds)

InitScopedMap ==
    /\ idgen = 0
    /\ mu = NoOwner
    /\ m = EmptyMap
    /\ ent = [h \in Handles |-> ZeroAccount]
    /\ pc = [h \in Handles |-> IF h = Writer THEN "root" ELSE "idle"]
    /\ call = [h \in Handles |-> NoCall]
    /\ res = [h \in Handles |-> NoRes]
    /\ handed = <<>>
    /\ program = "scopedmap"

\* m1.Put(key, value) on the root map, m2.Put(key, value) on the scope
MapPut(h, key, value) ==
    /\ pc[h] \in {"root", "scope"}
    /\ MapOpsSince(call[h].cmds) < MaxMapOps
    /\ IF pc[h] = "root"
       THEN /\ m' = RootPut(m, key, value)
            /\ call' = [call EXCEPT ![h].cmds = Append(@, MapCall("Put", key, value))]
       ELSE /\ m' = m
            /\ call' = [call EXCEPT ![h].cmds = Append(@, MapCall("Put", key, value)),
                                    ![h].scope = ScopedMapPut(@, key, value)]
    /\ UNCHANGED <<idgen, mu, ent, pc, res, handed, program>>

\* m1.Del(key) on the root map, m2.Del(key) on the scope
MapDel(h, key) ==
    /\ pc[h] \in {"root", "scope"}
    /\ MapOpsSince(call[h].cmds) < MaxMapOps
    /\ IF pc[h] = "root"
       THEN /\ m' = RootDel(m, key)
            /\ call' = [call EXCEPT ![h].cmds = Append(@, MapCall("Del", key, Nil))]
       ELSE /\ m' = m
            /\ call' = [call EXCEPT ![h].cmds = Append(@, MapCall("Del", key, Nil)),
                                    ![h].scope = ScopedMapDel(@, key)]
    /\ UNCHANGED <<idgen, mu, ent, pc, res, handed, program>>

\* m2 := m1.NewScope()
MapNewScope(h) ==
    /\ pc[h] = "root"
    /\ pc' = [pc EXCEPT ![h] = "scope"]
    /\ call' = [call EXCEPT ![h].cmds = Append(@, MapCall("NewScope", <<>>, Nil)),
                            ![h].scope = EmptyMap]
    /\ UNCHANGED <<idgen, mu, m, ent, res, handed, program>>

\* m2.ApplyToOuter(): the entries go to the outer map and "s.m = nil"
MapApplyToOuter(h) ==
    /\ pc[h] = "scope"
    /\ m' = ApplyToOuter(call[h].scope, m)
    /\ pc' = [pc EXCEPT ![h] = "done"]
    /\ call' = [call EXCEPT ![h].cmds = Append(@, MapCall("ApplyToOuter", <<>>, Nil)),
                            ![h].scope = EmptyMap]
    /\ UNCHANGED <<idgen, mu, ent, res, handed, program>>

NextScopedMap ==
    \/ \E key \in MapKeys, value \in MapValues : MapPut(Writer, key, value)
    \/ \E key \in MapKeys : MapDel(Writer, key)
    \/ MapNewScope(Writer)
    \/ MapApplyToOuter(Writer)

SpecScopedMap == InitScopedMap /\ [][NextScopedMap]_vars

(***************************************************************************)
(* C18: a Put or Del made in a scope is visible through the scope (Get of  *)
(* the key returns the value put, nil after a Del or a Put of nil even     *)
(* where the outer map holds a value; Get of every other key is as before) *)
(* and leaves the outer map as it was; after ApplyToOuter the outer map    *)
(* returns for every key what the scope returned before the call.          *)
(***************************************************************************)
C18_ScopeThenApplyToOuter ==
    [][/\ \A key \in MapKeys, value \in MapValues :
            (pc[Writer] = "scope" /\ MapPut(Writer, key, value))
            => /\ ScopedMapGet(call'[Writer].scope, m', key) = value
               /\ \A k \in MapKeys \ {key} :
                     ScopedMapGet(call'[Writer].scope, m', k)
                       = ScopedMapGet(call[Writer].scope, m, k)
               /\ \A k \in MapKeys : RootGet(m', k) = RootGet(m, k)
               /\ m' = m
       /\ \A key \in MapKeys :
            (pc[Writer] = "scope" /\ MapDel(Writer, key))
            => /\ ScopedMapGet(call'[Writer].scope, m', key) = Nil
               /\ \A k \in MapKeys \ {key} :
                     ScopedMapGet(call'[Writer].scope, m', k)
                       = ScopedMapGet(call[Writer].scope, m, k)
               /\ m' = m
       /\ MapApplyToOuter(Writer)
            => \A k \in MapKeys : RootGet(m', k) = ScopedMapGet(call[Writer].scope, m, k)
      ]_vars

\* the run of TestScopedMap: "a" and "b" put in the root map, "c" put and "b"
\* deleted in the scope, the scope applied: the root map holds "a" and "c"
C18_Witness ==
    /\ program = "scopedmap"
    /\ pc[Writer] = "done"
    /\ call[Writer].cmds = << MapCall("Put", <<97>>, BytesValue(<<97>>)),
                              MapCall("Put", <<98>>, BytesValue(<<98>>)),
                              MapCall("NewScope", <<>>, Nil),
                              MapCall("Put", <<99>>, BytesValue(<<99>>)),
                              MapCall("Del", <<98>>, Nil),
                              MapCall("ApplyToOuter", <<>>, Nil) >>
    /\ RootGet(m, <<97>>) = BytesValue(<<97>>)
    /\ RootGet(m, <<98>>) = Nil
    /\ RootGet(m, <<99>>) = BytesValue(<<99>>)

(***************************************************************************)
(* ComputeIndexEdits called on its own: the caller holds the arguments in  *)
(* call[h] (prevEnt, the next ent in ents, id, changedFields), m is the    *)
(* map indexGet reads, and program tells whether indexGet is passed        *)
(* ("edits", as mem.EntStorage does) or nil ("editsnil", as the redis      *)
(* storage does).  The edits returned are kept in call[h].cmds.            *)
(***************************************************************************)
\* the ents passed: nil or an account with no, one or the other email
EditsEnts == {<<>>} \cup {<<NewAccount(<<>>, email, kind)>> :
                              email \in {<<>>} \cup LookupEmails, kind \in Kinds}

\* the fieldmaps passed
EditsFieldSets == SUBSET {ent_Account_f_name, ent_Account_f_email, ent_Account_f_kind}

\* the storages indexGet reads: empty, one account created, two created
EditsRoots == {EmptyMap,
               Created(EmptyMap, ReadersAccount(1), 1),
               Created(Created(EmptyMap, ReadersAccount(1), 1), ReadersAccount(2), 2)}

HasIndexGet == program \in {"edits", "entedits"}

InitIndexEdits ==
    /\ idgen = 0
    /\ mu = NoOwner
    /\ m \in EditsRoots
    /\ ent = [h \in Handles |-> ZeroAccount]
    /\ pc = [h \in Handles |-> IF h = Writer THEN "args" ELSE "idle"]
    /\ \E prevEnt \in EditsEnts, nextEnt \in EditsEnts, id \in Ids,
          changedFields \in EditsFieldSets :
          /\ prevEnt # <<>> \/ nextEnt # <<>>
          /\ call = [h \in Handles |->
                        IF h = Writer
                        THEN [NoCall EXCEPT !.prevEnt = prevEnt, !.ents = nextEnt, !.id = id,
                                            !.changedFields = changedFields]
                        ELSE NoCall]
    /\ res = [h \in Handles |-> NoRes]
    /\ handed = <<>>
    /\ program \in {"edits", "editsnil"}

\* edits, err := ComputeIndexEdits(indexGet, prevEnt, nextEnt, id, changedFields)
CallComputeIndexEdits(h) ==
    /\ pc[h] = "args"
    /\ LET c == call[h]
       IN /\ call' = [call EXCEPT ![h].cmds =
                         ComputeIndexEdits(HasIndexGet, m, c.prevEnt, c.ents, c.id, c.changedFields)]
          /\ res' = [res EXCEPT ![h] =
                        [NoRes EXCEPT !.op = "ComputeIndexEdits",
                                      !.err = ComputeIndexEditsErr(c.prevEnt, c.ents, c.changedFields)]]
    /\ pc' = [pc EXCEPT ![h] = "returned"]
    /\ UNCHANGED <<idgen, mu, m, ent, handed, program>>

NextIndexEdits == CallComputeIndexEdits(Writer)

SpecIndexEdits == InitIndexEdits /\ [][NextIndexEdits]_vars

\* the edits the loop computes when every field of the type counts as changed
EditsForAllFields(c) ==
    ComputeIndexEditsLoop(HasIndexGet, m, c.prevEnt, c.ents, c.id, AllFields, 1)

(***************************************************************************)
(* C19: with no previous ent and a next ent (creation) ComputeIndexEdits   *)
(* ignores changedFields: whatever set is passed, the empty one included,  *)
(* the edits returned are those computed for all fields of the type.       *)
(***************************************************************************)
C19_CreateIgnoresChangedFields ==
    (program \in {"edits", "editsnil"} /\ pc[Writer] = "returned"
        /\ call[Writer].prevEnt = <<>>)
    => call[Writer].cmds = EditsForAllFields(call[Writer])

\* creation of an account with email "b" and kind 1 beside a stored account,
\* called with an empty changedFields: an edit for the email index and one
\* for the kind index are returned
C19_Witness ==
    /\ program = "edits"
    /\ pc[Writer] = "returned"
    /\ call[Writer].prevEnt = <<>>
    /\ call[Writer].ents = <<NewAccount(<<>>, <<98>>, 1)>>
    /\ call[Writer].changedFields = {}
    /\ m # EmptyMap
    /\ Len(call[Writer].cmds) = 2
    /\ \A i \in 1..2 : call[Writer].cmds[i].Index = EntIndexes[i]
                        /\ ~call[Writer].cmds[i].IsCleanup

(***************************************************************************)
(* C20: with a previous ent and no next ent (deletion) ComputeIndexEdits   *)
(* replaces changedFields by all fields of the type as it does on          *)
(* creation: whatever set is passed, the empty one included, the edits     *)
(* returned are the cleanup edits computed for all fields, one for every   *)
(* index under whose key the ent is indexed, and no edit that is not a     *)
(* cleanup.                                                                *)
(***************************************************************************)
C20_DeleteIgnoresChangedFields ==
    (program \in {"edits", "editsnil"} /\ pc[Writer] = "returned"
        /\ call[Writer].prevEnt # <<>> /\ call[Writer].ents = <<>>)
    => /\ call[Writer].cmds = EditsForAllFields(call[Writer])
       /\ \A i \in 1..Len(call[Writer].cmds) : call[Writer].cmds[i].IsCleanup

\* the part of C20 the code keeps: on deletion every edit is a cleanup, and
\* with all fields passed there is one for every index that holds the ent
C20_DeleteOnlyCleansUp ==
    (program \in {"edits", "editsnil"} /\ pc[Writer] = "returned"
        /\ call[Writer].prevEnt # <<>> /\ call[Writer].ents = <<>>)
    => /\ \A i \in 1..Len(call[Writer].cmds) : call[Writer].cmds[i].IsCleanup
       /\ \A i \in 1..Len(EntIndexes) :
             (/\ FieldSetContains(call[Writer].changedFields, EntIndexes[i].Fields)
              /\ InSeq(call[Writer].id,
                       indexGet(m, EntTypeName, EntIndexes[i].Name,
                                EncodeKey(call[Writer].prevEnt[1], EntIndexes[i].Fields))))
             => \E j \in 1..Len(call[Writer].cmds) : call[Writer].cmds[j].Index = EntIndexes[i]

\* deletion of the stored account 1 (email "a", kind 0) called with an empty
\* changedFields: no edit is returned, where all fields give two cleanups
C20_Witness ==
    /\ program = "edits"
    /\ pc[Writer] = "returned"
    /\ call[Writer].prevEnt = <<ReadersAccount(1)>>
    /\ call[Writer].ents = <<>>
    /\ call[Writer].id = 1
    /\ call[Writer].changedFields = {}
    /\ m = Created(EmptyMap, ReadersAccount(1), 1)
    /\ call[Writer].cmds = <<>>
    /\ Len(EditsForAllFields(call[Writer])) = 2

(***************************************************************************)
(* C21: when, for every index of the type, the key encoded from the        *)
(* previous ent equals the key encoded from the next ent, ComputeIndexEdits*)
(* returns no edit, whatever changedFields is passed.                      *)
(***************************************************************************)
\* both ents are passed and encode to the same key for every index
SameIndexKeys(c) ==
    /\ c.prevEnt # <<>>
    /\ c.ents # <<>>
    /\ \A i \in 1..Len(EntIndexes) :
          EncodeKey(c.prevEnt[1], EntIndexes[i].Fields) = EncodeKey(c.ents[1], EntIndexes[i].Fields)

C21_SameKeysNoEdits ==
    (program \in {"edits", "editsnil"} /\ pc[Writer] = "returned" /\ SameIndexKeys(call[Writer]))
    => call[Writer].cmds = <<>>

\* the stored account 1 (email "a", kind 0) saved with the values it has and
\* the email and the kind marked as changed: no edit is returned
C21_Witness ==
    /\ program = "edits"
    /\ pc[Writer] = "returned"
    /\ call[Writer].prevEnt = <<ReadersAccount(1)>>
    /\ call[Writer].ents = <<ReadersAccount(1)>>
    /\ call[Writer].id = 1
    /\ call[Writer].changedFields = {ent_Account_f_email, ent_Account_f_kind}
    /\ m = Created(EmptyMap, ReadersAccount(1), 1)
    /\ call[Writer].cmds = <<>>

\* the same with an empty email on both sides: the keys of the email index
\* are both empty
C21_EmptyKeyWitness ==
    /\ program = "editsnil"
    /\ pc[Writer] = "returned"
    /\ call[Writer].prevEnt = <<NewAccount(<<>>, <<>>, 1)>>
    /\ call[Writer].ents = <<NewAccount(<<>>, <<>>, 1)>>
    /\ call[Writer].changedFields = {ent_Account_f_email, ent_Account_f_kind}
    /\ call[Writer].cmds = <<>>

(***************************************************************************)
(* C22: when one call of ComputeIndexEdits affects two or more indexes,    *)
(* every cleanup edit comes before every insert edit in the list returned: *)
(* no edit that is not a cleanup is followed by a cleanup.                 *)
(***************************************************************************)
C22_CleanupsBeforeInserts ==
    (program \in {"edits", "editsnil"} /\ pc[Writer] = "returned")
    => \A i, j \in 1..Len(call[Writer].cmds) :
          (i < j /\ ~call[Writer].cmds[i].IsCleanup) => ~call[Writer].cmds[j].IsCleanup

\* the order the loop over the indexes gives: the edits of an index come
\* before those of every later index, the cleanup of an index before its
\* insert
C22_CleanupBeforeInsertPerIndex ==
    (program \in {"edits", "editsnil"} /\ pc[Writer] = "returned")
    => \A i, j \in 1..Len(call[Writer].cmds) :
          (i < j /\ call[Writer].cmds[i].Index = call[Writer].cmds[j].Index)
          => (call[Writer].cmds[i].IsCleanup /\ ~call[Writer].cmds[j].IsCleanup)

\* account 1 changes its email from "a" to "b" and its kind from 0 to 1: the
\* insert for the email index comes before the cleanup for the kind index
C22_Witness ==
    /\ program = "edits"
    /\ pc[Writer] = "returned"
    /\ call[Writer].prevEnt = <<ReadersAccount(1)>>
    /\ call[Writer].ents = <<NewAccount(<<>>, <<98>>, 1)>>
    /\ call[Writer].id = 1
    /\ call[Writer].changedFields = {ent_Account_f_email, ent_Account_f_kind}
    /\ m = Created(EmptyMap, ReadersAccount(1), 1)
    /\ Len(call[Writer].cmds) = 4
    /\ call[Writer].cmds[2].Index = EntIndexes[1] /\ ~call[Writer].cmds[2].IsCleanup
    /\ call[Writer].cmds[3].Index = EntIndexes[2] /\ call[Writer].cmds[3].IsCleanup

(***************************************************************************)
(* C23: the cleanup edit for the old key of an index.  As claimed, its     *)
(* value is empty (the whole key is deleted) if the index is unique or if  *)
(* the set fetched for the key, with id removed, has at most one member,   *)
(* and is the fetched set without id otherwise.  As the code has it, the   *)
(* value is empty if the index is unique or the fetched set has exactly    *)
(* one member, and is the fetched set without id otherwise: an id that     *)
(* stays behind keeps its entry.                                           *)
(***************************************************************************)
\* the ids of a list
IdsOf(s) == {s[i] : i \in 1..Len(s)}

\* what indexGet returns for the key of edit ed (nothing when indexGet is nil)
FetchedFor(ed) ==
    IF HasIndexGet THEN indexGet(m, EntTypeName, ed.Index.Name, ed.Key) ELSE <<>>

\* the cleanup edits among the edits returned
CleanupEdits(c) == {c.cmds[i] : i \in {j \in 1..Len(c.cmds) : c.cmds[j].IsCleanup}}

C23_CleanupValueAsClaimed ==
    (program \in {"edits", "editsnil"} /\ pc[Writer] = "returned")
    => \A ed \in CleanupEdits(call[Writer]) :
          IdsOf(ed.Value) =
             IF IsUnique(ed.Index)
                \/ Cardinality(IdsOf(FetchedFor(ed)) \ {call[Writer].id}) <= 1
             THEN {}
             ELSE IdsOf(FetchedFor(ed)) \ {call[Writer].id}

C23_CleanupValue ==
    (program \in {"edits", "editsnil"} /\ pc[Writer] = "returned")
    => \A ed \in CleanupEdits(call[Writer]) :
          /\ IdsOf(ed.Value) =
                IF IsUnique(ed.Index) \/ Cardinality(IdsOf(FetchedFor(ed))) = 1
                THEN {}
                ELSE IdsOf(FetchedFor(ed)) \ {call[Writer].id}
          /\ Cardinality(IdsOf(ed.Value)) = Len(ed.Value)

\* accounts 1 and 2 are stored with kind 0 and account 1 changes its kind to
\* 1: the cleanup edit for kind 0 holds the one id that stays, 2
C23_Witness ==
    /\ program = "edits"
    /\ pc[Writer] = "returned"
    /\ call[Writer].prevEnt = <<ReadersAccount(1)>>
    /\ call[Writer].ents = <<NewAccount(<<>>, <<97>>, 1)>>
    /\ call[Writer].id = 1
    /\ call[Writer].changedFields = {ent_Account_f_kind}
    /\ indexGet(m, EntTypeName, EntIndexes[2].Name, KindKey(0)) = <<1, 2>>
    /\ Len(call[Writer].cmds) = 2
    /\ call[Writer].cmds[1].IsCleanup
    /\ call[Writer].cmds[1].Key = KindKey(0)
    /\ call[Writer].cmds[1].Value = <<2>>

(***************************************************************************)
(* C27: an empty string is a legal key of a single-field index: for an ent *)
(* whose indexed field is empty ComputeIndexEdits returns, on creation, an *)
(* insert edit for the index under the empty key, and, when the value      *)
(* changes later, a cleanup edit for the empty key.                        *)
(***************************************************************************)
\* the edits hold an edit for index x under key that is, or is not, a cleanup
HasEdit(edits, x, key, isCleanup) ==
    \E i \in 1..Len(edits) :
        edits[i].Index = x /\ edits[i].Key = key /\ edits[i].IsCleanup = isCleanup

C27_EmptyKeyIsIndexed ==
    (program \in {"edits", "editsnil"} /\ pc[Writer] = "returned")
    => LET c == call[Writer]
       IN /\ (c.prevEnt = <<>> /\ c.ents[1].email = <<>>)
             => HasEdit(c.cmds, EntIndexes[1], <<>>, FALSE)
          /\ (/\ c.prevEnt # <<>> /\ c.ents # <<>>
              /\ c.prevEnt[1].email = <<>> /\ c.ents[1].email # <<>>
              /\ ent_Account_f_email \in c.changedFields)
             => HasEdit(c.cmds, EntIndexes[1], <<>>, TRUE)

\* creation of an account with an empty email and kind 1: the one edit
\* returned is the insert for the kind index, none is for the email index
C27_Witness ==
    /\ program = "edits"
    /\ pc[Writer] = "returned"
    /\ call[Writer].prevEnt = <<>>
    /\ call[Writer].ents = <<NewAccount(<<>>, <<>>, 1)>>
    /\ Len(call[Writer].cmds) = 1
    /\ call[Writer].cmds[1].Index = EntIndexes[2]
    /\ ~call[Writer].cmds[1].IsCleanup

(***************************************************************************)
(* An IdSet on its own (idset.go): the caller adds ids to and deletes ids  *)
(* from the set in call[h].ids; after an Encode call[h].json holds the     *)
(* encoded set and call[h].it.ids what ParseIdSet made of it.              *)
(***************************************************************************)
\* the ids added and deleted: zero, one-digit and two-digit ids
IdSetIds == {0, 1, 2, 10, 12}

InitIdSet ==
    /\ idgen = 0
    /\ mu = NoOwner
    /\ m = EmptyMap
    /\ ent = [h \in Handles |-> ZeroAccount]
    /\ pc = [h \in Handles |-> "idle"]
    /\ call = [h \in Handles |-> NoCall]
    /\ res = [h \in Handles |-> NoRes]
    /\ handed = <<>>
    /\ program = "idset"

\* s.Add(id)
CallIdSetAdd(h, id) ==
    /\ call' = [call EXCEPT ![h].ids = IdSetAdd(@, id), ![h].id = id, ![h].op = "Add",
                            ![h].json = Nil, ![h].it = NoIterator]
    /\ UNCHANGED <<idgen, mu, m, ent, pc, res, handed, program>>

\* s.Del(id)
CallIdSetDel(h, id) ==
    /\ call' = [call EXCEPT ![h].ids = IdSetDel(@, id), ![h].id = id, ![h].op = "Del",
                            ![h].json = Nil, ![h].it = NoIterator]
    /\ UNCHANGED <<idgen, mu, m, ent, pc, res, handed, program>>

\* data := s.Encode(); ParseIdSet(data)
CallIdSetEncodeParse(h) ==
    /\ LET data == BytesValue(IdSetEncode(call[h].ids))
       IN call' = [call EXCEPT ![h].json = data,
                               ![h].it.ids = IF ValueLen(data) > 0 THEN ParseIdSet(data.bytes)
                                             ELSE <<>>,
                               ![h].op = "Encode"]
    /\ UNCHANGED <<idgen, mu, m, ent, pc, res, handed, program>>

NextIdSet ==
    \/ \E id \in IdSetIds : CallIdSetAdd(Writer, id)
    \/ \E id \in IdSetIds : CallIdSetDel(Writer, id)
    \/ CallIdSetEncodeParse(Writer)

SpecIdSet == InitIdSet /\ [][NextIdSet]_vars

(***************************************************************************)
(* C28: an IdSet behaves as a set and round-trips: after any sequence of   *)
(* Add and Del no id occurs twice, an id just added is contained and an id *)
(* just deleted is not, and ParseIdSet(s.Encode()) holds exactly the ids   *)
(* of s, for the empty set too.                                            *)
(***************************************************************************)
C28_IdSetIsASetAndRoundTrips ==
    program = "idset"
    => LET c == call[Writer]
       IN /\ Cardinality(IdsOf(c.ids)) = Len(c.ids)
          /\ c.op = "Add" => IdSetHas(c.ids, c.id)
          /\ c.op = "Del" => ~IdSetHas(c.ids, c.id)
          /\ c.op = "Encode" => /\ IdsOf(c.it.ids) = IdsOf(c.ids)
                                /\ c.it.ids = c.ids

\* ids were added and deleted, the set <<12, 0, 10>> was encoded as
\* "12 0 10" and parsed back
C28_Witness ==
    /\ program = "idset"
    /\ call[Writer].op = "Encode"
    /\ call[Writer].ids = <<12, 0, 10>>
    /\ call[Writer].json = BytesValue(<<49, 50, 32, 48, 32, 49, 48>>)
    /\ call[Writer].it.ids = <<12, 0, 10>>

\* the empty set, reached by a Del, was encoded as "" and parsed back
C28_EmptyWitness ==
    /\ program = "idset"
    /\ call[Writer].op = "Encode"
    /\ call[Writer].id = 2
    /\ call[Writer].ids = <<>>
    /\ call[Writer].json = BytesValue(<<>>)
    /\ call[Writer].it.ids = <<>>

(***************************************************************************)
(* IndexKeyEncoder on its own: the caller holds in call[h].ents the fields *)
(* a key is encoded from, in the order they are passed, each a record of   *)
(* the name (the Key), the type and the value; call[h].cmds are the calls  *)
(* made on the encoder.  The key returned is kept in call[h].json, the     *)
(* error in res[h].err.                                                    *)
(***************************************************************************)
MaxKeyFields == 3

\* the fields keys are encoded from
KeyFieldValues ==
    {IntField(<<119>>, v) : v \in {0, 1, 37}}
    \cup {IntField(<<104>>, v) : v \in {0, 1, 37}}
    \cup {StrField(<<110, 97, 109, 101>>, v) : v \in {<<>>, <<120>>, <<255>>}}
    \cup {KeyField(<<100, 97, 116, 97>>, "blob", 0, <<120>>, <<>>, <<>>),
          KeyField(<<102, 111, 111>>, "list", 0, <<>>, <<1>>, <<>>),
          KeyField(<<116, 104, 105, 110, 103, 115>>, "dict", 0, <<>>, <<>>,
                   <<[k |-> <<107>>, v |-> 1]>>)}

\* the lists of one to MaxKeyFields fields with different names
KeyFieldLists ==
    UNION {{fs \in [1..n -> KeyFieldValues] :
               \A i, j \in 1..n : i # j => fs[i].name # fs[j].name} : n \in 1..MaxKeyFields}

InitIndexKey ==
    /\ idgen = 0
    /\ mu = NoOwner
    /\ m = EmptyMap
    /\ ent = [h \in Handles |-> ZeroAccount]
    /\ pc = [h \in Handles |-> IF h = Writer THEN "args" ELSE "idle"]
    /\ \E fs \in KeyFieldLists :
          call = [h \in Handles |->
                     IF h = Writer THEN [NoCall EXCEPT !.ents = fs, !.cmds = FieldsCalls(fs)]
                     ELSE NoCall]
    /\ res = [h \in Handles |-> NoRes]
    /\ handed = <<>>
    /\ program = "indexkey"

\* key, err := c.EncodeKey(e, fields), the ent making the calls call[h].cmds
CallEncodeKey(h) ==
    /\ pc[h] = "args"
    /\ LET c == IndexKeyEncode(Len(call[h].ents), call[h].cmds)
       IN /\ call' = [call EXCEPT ![h].json = BytesValue(c.b)]
          /\ res' = [res EXCEPT ![h] = [NoRes EXCEPT !.op = "EncodeKey", !.err = c.err]]
    /\ pc' = [pc EXCEPT ![h] = "returned"]
    /\ UNCHANGED <<idgen, mu, m, ent, handed, program>>

NextIndexKey == CallEncodeKey(Writer)

SpecIndexKey == InitIndexKey /\ [][NextIndexKey]_vars

(***************************************************************************)
(* C25: the key of a compound index does not depend on the order in which  *)
(* the fields are passed to the encoder: the same fields with the same     *)
(* values, encoded in any other order, give the same key, and are          *)
(* rejected in every order if they are rejected in one.                    *)
(***************************************************************************)
\* the orders of n things
FieldOrders(n) == {p \in [1..n -> 1..n] : \A i, j \in 1..n : i # j => p[i] # p[j]}

Permuted(fs, p) == [i \in 1..Len(fs) |-> fs[p[i]]]

C25_KeyIndependentOfFieldOrder ==
    (program = "indexkey" /\ pc[Writer] = "returned" /\ Len(call[Writer].ents) > 1)
    => \A p \in FieldOrders(Len(call[Writer].ents)) :
          LET c == IndexKeyEncode(Len(call[Writer].ents),
                                  FieldsCalls(Permuted(call[Writer].ents, p)))
          IN /\ (c.err = "ok") = (res[Writer].err = "ok")
             /\ c.err = "ok" => c.b = call[Writer].json.bytes

\* "w" = 37, "name" = "x" and "h" = 1 passed in this order give the key
\* h 0xFF 1 0xFF name 0xFF x 0xFF w 0xFF 11 (37 in base 36)
C25_Witness ==
    /\ program = "indexkey"
    /\ pc[Writer] = "returned"
    /\ res[Writer].err = "ok"
    /\ Len(call[Writer].ents) = 3
    /\ call[Writer].ents[1] = IntField(<<119>>, 37)
    /\ call[Writer].ents[2] = StrField(<<110, 97, 109, 101>>, <<120>>)
    /\ call[Writer].ents[3] = IntField(<<104>>, 1)
    /\ call[Writer].json.bytes = <<104, 255, 49, 255, 110, 97, 109, 101, 255, 120, 255,
                                   119, 255, 49, 49>>

(***************************************************************************)
(* ComputeIndexEdits on ents of other types than Account: program is       *)
(* "entedits" (indexGet passed) or "enteditsnil" (indexGet nil).           *)
(***************************************************************************)
\* a type with the compound index of examples/mem's Account: the fields "w"
\* and "h" are tagged index=size
RectIndexes == << [Name |-> <<115, 105, 122, 101>>, Fields |-> {0, 1}, unique |-> FALSE] >>

NewRect(w, h) ==
    NewEnt(<<114, 101, 99, 116>>, <<IntField(<<119>>, w), IntField(<<104>>, h)>>, RectIndexes)

\* a type "post" with an index on each of its fields: "title" (string),
\* "tags" ([]int) and "things" (map[string]int)
PostIndexes ==
    << [Name |-> <<116, 105, 116, 108, 101>>, Fields |-> {0}, unique |-> FALSE],
       [Name |-> <<116, 97, 103, 115>>, Fields |-> {1}, unique |-> FALSE],
       [Name |-> <<116, 104, 105, 110, 103, 115>>, Fields |-> {2}, unique |-> FALSE] >>

NewPost(title, tags, things) ==
    NewEnt(<<112, 111, 115, 116>>,
           <<StrField(<<116, 105, 116, 108, 101>>, title),
             KeyField(<<116, 97, 103, 115>>, "list", 0, <<>>, tags, <<>>),
             KeyField(<<116, 104, 105, 110, 103, 115>>, "dict", 0, <<>>, <<>>, things)>>,
           PostIndexes)

\* a type "user" whose EntIndexes, written by hand, holds two indexes of the
\* field "email": the unique "email" and "mail"
UserIndexes ==
    << [Name |-> <<101, 109, 97, 105, 108>>, Fields |-> {0}, unique |-> TRUE],
       [Name |-> <<109, 97, 105, 108>>, Fields |-> {0}, unique |-> FALSE] >>

NewUser(email) == NewEnt(<<117, 115, 101, 114>>, <<StrField(<<101, 109, 97, 105, 108>>, email)>>,
                         UserIndexes)

\* the ents passed: nil or an ent of one of the three types
EntEditsEnts ==
    {<<>>}
    \cup {<<NewRect(w, h)>> : w \in {0, 1}, h \in {0, 1}}
    \cup {<<NewPost(title, tags, things)>> :
              title \in {<<>>, <<97>>}, tags \in {<<>>, <<1>>},
              things \in {<<>>, <<[k |-> <<107>>, v |-> 1]>>}}
    \cup {<<NewUser(email)>> : email \in {<<>>} \cup LookupEmails}

\* the storages indexGet reads: empty, a user created, a user and a rect
EntEditsRoots == {EmptyMap,
                  Created(EmptyMap, NewUser(<<97>>), 1),
                  Created(Created(EmptyMap, NewUser(<<97>>), 1), NewRect(1, 0), 2)}

InitEntEdits ==
    /\ idgen = 0
    /\ mu = NoOwner
    /\ m \in EntEditsRoots
    /\ ent = [h \in Handles |-> ZeroAccount]
    /\ pc = [h \in Handles |-> IF h = Writer THEN "args" ELSE "idle"]
    /\ \E prevEnt \in EntEditsEnts, nextEnt \in EntEditsEnts, id \in Ids,
          changedFields \in SUBSET {0, 1, 2} :
          /\ prevEnt # <<>> \/ nextEnt # <<>>
          /\ call = [h \in Handles |->
                        IF h = Writer
                        THEN [NoCall EXCEPT !.prevEnt = prevEnt, !.ents = nextEnt, !.id = id,
                                            !.changedFields = changedFields]
                        ELSE NoCall]
    /\ res = [h \in Handles |-> NoRes]
    /\ handed = <<>>
    /\ program \in {"entedits", "enteditsnil"}

SpecEntEdits == InitEntEdits /\ [][NextIndexEdits]_vars

\* an index of the ent that is not skipped holds a field of one of the types
ChangedIndexHolds(e, changedFields, types) ==
    \E i \in 1..Len(EntIndexesOf(e)) :
       /\ FieldSetContains(changedFields, EntIndexesOf(e)[i].Fields)
       /\ \E f \in EntIndexesOf(e)[i].Fields : e.fields[f + 1].type \in types

(***************************************************************************)
(* C26: an index key of a field that holds a list or a dict is rejected    *)
(* with an encoding error: when an index that is not skipped holds such a  *)
(* field, ComputeIndexEdits returns that error and no edits, also when the *)
(* indexes before it gave edits.                                           *)
(***************************************************************************)
C26_ListOrDictKeyRejected ==
    (program \in {"entedits", "enteditsnil"} /\ pc[Writer] = "returned")
    => LET c == call[Writer]
           roEnt == RoEnt(c.prevEnt, c.ents)
       IN (/\ c.prevEnt # <<>> => EntTypeNameOf(c.prevEnt[1]) = EntTypeNameOf(roEnt)
           /\ ChangedIndexHolds(roEnt, ChangedFields(c.prevEnt, c.ents, c.changedFields),
                                {"list", "dict"}))
          => /\ res[Writer].err \in {"can't index lists", "can't index dicts"}
             /\ c.cmds = <<>>

\* the title of a post changed from "" to "a" and its tags from [] to [1]:
\* the title index comes first and gives an insert, the tags index is
\* rejected, and no edit is returned
C26_Witness ==
    /\ program = "enteditsnil"
    /\ pc[Writer] = "returned"
    /\ call[Writer].prevEnt = <<NewPost(<<>>, <<>>, <<>>)>>
    /\ call[Writer].ents = <<NewPost(<<97>>, <<1>>, <<>>)>>
    /\ call[Writer].changedFields = {0, 1}
    /\ res[Writer].err = "can't index lists"
    /\ call[Writer].cmds = <<>>
    /\ Len(ComputeIndexEditsKeepsEdits(FALSE, m, call[Writer].prevEnt, call[Writer].ents,
                                       call[Writer].id, {0})) = 1

\* a dict is rejected as well
C26_DictWitness ==
    /\ program = "entedits"
    /\ pc[Writer] = "returned"
    /\ call[Writer].prevEnt = <<NewPost(<<97>>, <<>>, <<>>)>>
    /\ call[Writer].ents = <<NewPost(<<97>>, <<>>, <<[k |-> <<107>>, v |-> 1]>>)>>
    /\ call[Writer].changedFields = {2}
    /\ res[Writer].err = "can't index dicts"
    /\ call[Writer].cmds = <<>>

(***************************************************************************)
(* C24: the number of edits ComputeIndexEdits returns is at most twice the *)
(* number of changed fields, the capacity the slice of edits is made with. *)
(***************************************************************************)
C24_EditsWithinCapacity ==
    (program \in {"entedits", "enteditsnil"} /\ pc[Writer] = "returned")
    => Len(call[Writer].cmds)
         <= 2 * FieldSetLen(ChangedFields(call[Writer].prevEnt, call[Writer].ents,
                                          call[Writer].changedFields))

\* the types whose indexes share no field
DisjointIndexes(e) ==
    \A i, j \in 1..Len(EntIndexesOf(e)) :
       i # j => EntIndexesOf(e)[i].Fields \cap EntIndexesOf(e)[j].Fields = {}

\* the bound holds for the types in which no field takes part in two indexes
C24_EditsWithinCapacityDisjoint ==
    (program \in {"entedits", "enteditsnil"} /\ pc[Writer] = "returned"
        /\ DisjointIndexes(RoEnt(call[Writer].prevEnt, call[Writer].ents)))
    => Len(call[Writer].cmds)
         <= 2 * FieldSetLen(ChangedFields(call[Writer].prevEnt, call[Writer].ents,
                                          call[Writer].changedFields))

\* the stored user 1 changes its email from "a" to "b": one field changed,
\* a cleanup and an insert for each of the two indexes of the field
C24_Witness ==
    /\ program = "entedits"
    /\ pc[Writer] = "returned"
    /\ call[Writer].prevEnt = <<NewUser(<<97>>)>>
    /\ call[Writer].ents = <<NewUser(<<98>>)>>
    /\ call[Writer].id = 1
    /\ call[Writer].changedFields = {0}
    /\ res[Writer].err = "ok"
    /\ Len(call[Writer].cmds) = 4

\* one field of the compound index of a rect changed: two edits
C24_CompoundWitness ==
    /\ program = "enteditsnil"
    /\ pc[Writer] = "returned"
    /\ call[Writer].prevEnt = <<NewRect(1, 0)>>
    /\ call[Writer].ents = <<NewRect(0, 0)>>
    /\ call[Writer].changedFields = {0}
    /\ Len(call[Writer].cmds) = 2

(***************************************************************************)
(* mem.EntStorage holding ents of other types than Account: program is     *)
(* "enttypes".  One caller holds a rect, whose "size" index is compound,   *)
(* the other a note, a type with one field, "text", and no index.          *)
(***************************************************************************)
NewNote(text) == NewEnt(<<110, 111, 116, 101>>, <<StrField(<<116, 101, 120, 116>>, text)>>, <<>>)

\* the widths and heights the callers set
Sizes == {0, 1}

InitEntTypes ==
    /\ idgen = 0
    /\ mu = NoOwner
    /\ m = EmptyMap
    /\ ent = [h \in Handles |-> IF h = Writer THEN NewRect(0, 0) ELSE NewNote(<<>>)]
    /\ pc = [h \in Handles |-> "idle"]
    /\ call = [h \in Handles |-> NoCall]
    /\ res = [h \in Handles |-> NoRes]
    /\ handed = <<>>
    /\ program = "enttypes"

\* a generated setter of an int field: "e.width = v; ent.SetFieldChanged(&e.EntBase, i)"
SetIntField(h, i, v) ==
    /\ pc[h] = "idle"
    /\ i \in EntFieldsOf(ent[h])
    /\ ent[h].fields[i + 1].type = "int"
    /\ ent' = [ent EXCEPT ![h] = SetFieldChanged([@ EXCEPT !.fields[i + 1].int = v], i)]
    /\ res' = [res EXCEPT ![h] = Touched(@)]
    /\ UNCHANGED <<idgen, mu, m, pc, call, handed, program>>

\* a generated setter of a string field
SetStrField(h, i, v) ==
    /\ pc[h] = "idle"
    /\ i \in EntFieldsOf(ent[h])
    /\ ent[h].fields[i + 1].type = "str"
    /\ ent' = [ent EXCEPT ![h] = SetFieldChanged([@ EXCEPT !.fields[i + 1].bytes = v], i)]
    /\ res' = [res EXCEPT ![h] = Touched(@)]
    /\ UNCHANGED <<idgen, mu, m, pc, call, handed, program>>

NextEntTypes ==
    \E h \in Handles :
        \/ \E i \in {0, 1}, v \in Sizes : SetIntField(h, i, v)
        \/ \E v \in Names : SetStrField(h, 0, v)
        \/ CreateEnt(h)
        \/ PutLock(h)
        \/ SaveEnt(h)
        \/ PutCommit(h)

SpecEntTypes == InitEntTypes /\ [][NextEntTypes]_vars

\* what LoadById decodes from the payload stored for the id of e: [e, id, version]
StoredOf(root, e, id) == JsonDecodeEnt(EntNewOf(e), RootGet(root, entKey(EntTypeNameOf(e), id)))
IsStoredOf(root, e, id) == ~RootGet(root, entKey(EntTypeNameOf(e), id)).nil

\* the ids found under the key of the "size" index for a width and a height
RectIdsOfSize(root, w, h) ==
    indexGet(root, EntTypeNameOf(NewRect(w, h)), RectIndexes[1].Name,
             EncodeKey(NewRect(w, h), RectIndexes[1].Fields))

\* the previous snapshot a save computes the index edits from holds the
\* stored value of every field of an index
PrevEntHoldsStoredIndexFields(h) ==
    (pc[h] = "locked" /\ call[h].op = "save" /\ call[h].prevEnt # <<>>)
    => \A f \in IndexedFields(ent[h]) :
          call[h].prevEnt[1].fields[f + 1]
            = StoredOf(m, ent[h], call[h].id).e.fields[f + 1]

\* a rect is found under the size key of the width and height stored for it,
\* and under no other
FoundUnderStoredSizeOnly(root) ==
    \A id \in Ids, w \in Sizes, h \in Sizes :
       InSeq(id, RectIdsOfSize(root, w, h))
       => /\ IsStoredOf(root, NewRect(0, 0), id)
          /\ StoredOf(root, NewRect(0, 0), id).e.fields = NewRect(w, h).fields

(***************************************************************************)
(* C29: on save the previous snapshot from which the index edits are       *)
(* computed holds the stored value of every field that takes part in an    *)
(* index, and so, when one field of a compound index changes, the ent is   *)
(* found after the save under the key of its stored values only.           *)
(***************************************************************************)
C29_PrevSnapshotHoldsIndexFields ==
    program = "enttypes"
    => /\ \A h \in Handles : PrevEntHoldsStoredIndexFields(h)
       /\ mu = NoOwner => FoundUnderStoredSizeOnly(m)

\* a rect created with width 0 and height 1 was saved with width 1: the save
\* returned nil, and the rect is found under the key of (0, 1) as before and
\* under that of (1, 1)
C29_Witness ==
    \E h \in Handles :
        /\ program = "enttypes"
        /\ ResIs(h, "save", "ok")
        /\ ent[h].id = 1
        /\ StoredOf(m, NewRect(0, 0), 1).e.fields = NewRect(1, 1).fields
        /\ RectIdsOfSize(m, 0, 1) = <<1>>
        /\ RectIdsOfSize(m, 1, 1) = <<1>>

\* when both fields of the index are changed the snapshot holds both stored
\* values and the old key is cleaned up
C29_BothChangedWitness ==
    \E h \in Handles :
        /\ program = "enttypes"
        /\ ResIs(h, "save", "ok")
        /\ ent[h].id = 1
        /\ StoredOf(m, NewRect(0, 0), 1).e.fields = NewRect(1, 0).fields
        /\ StoredOf(m, NewRect(0, 0), 1).version = 2
        /\ RectIdsOfSize(m, 0, 1) = <<>>
        /\ RectIdsOfSize(m, 1, 0) = <<1>>

(***************************************************************************)
(* C30: the partial decode returns the stored version for every type, one  *)
(* with no indexed field included: a save of an ent at the version stored  *)
(* for it passes the version check.                                        *)
(***************************************************************************)
C30_SaveAtStoredVersionPasses ==
    [][\A h \in Handles :
        (/\ program = "enttypes"
         /\ CanSave(h)
         /\ IsStoredOf(m, ent[h], ent[h].id)
         /\ StoredOf(m, ent[h], ent[h].id).version = ent[h].version
         /\ SaveEnt(h))
        => pc'[h] = "locked"]_vars

\* the same for the types that have an indexed field
C30_SaveAtStoredVersionPassesIndexed ==
    [][\A h \in Handles :
        (/\ program = "enttypes"
         /\ IndexedFields(ent[h]) # {}
         /\ CanSave(h)
         /\ IsStoredOf(m, ent[h], ent[h].id)
         /\ StoredOf(m, ent[h], ent[h].id).version = ent[h].version
         /\ SaveEnt(h))
        => pc'[h] = "locked"]_vars

\* a note created and then changed: its save returned ErrVersionConflict
\* although version 1 is stored and the note is at version 1
C30_Witness ==
    \E h \in Handles :
        /\ program = "enttypes"
        /\ IndexedFields(ent[h]) = {}
        /\ ResIs(h, "save", "VersionConflict")
        /\ ent[h].version = 1
        /\ StoredOf(m, ent[h], ent[h].id).version = 1

(***************************************************************************)
(* The unique index of the in-memory storage                               *)
(***************************************************************************)
\* the ids the unique index (email) of a root map holds under a key
UniqueIds(root, email) == indexGet(root, EntTypeName, EntIndexes[1].Name, email)

\* the unique index of a root map is exact for the keys of a set: a key maps
\* to at most one id, and to id i exactly when i is stored with this email
UniqueIndexExact(root, emails) ==
    \A email \in emails :
        /\ Len(UniqueIds(root, email)) <= 1
        /\ \A id \in Ids :
              InSeq(id, UniqueIds(root, email))
              <=> (IsStored(root, id) /\ StoredEnt(root, id).email = email)

(***************************************************************************)
(* C31: after any sequence of create, save and delete calls (successful or *)
(* failed) on the in-memory storage, the unique index maps each key to at  *)
(* most one id, and maps key k to id i exactly when ent i is stored and    *)
(* its current email encodes to k; the empty email is a key like any other.*)
(***************************************************************************)
C31_UniqueIndexExact == UniqueIndexExact(m, Emails)

\* the same of the keys that are not empty
C31_NonEmptyUniqueIndexExact == UniqueIndexExact(m, LookupEmails)

\* an ent is stored with the empty email after a create returned nil, and
\* the unique index holds no id under the empty key
C31_Witness ==
    /\ \E h \in Handles : ResIs(h, "create", "ok")
    /\ \E id \in Ids : IsStored(m, id) /\ StoredEnt(m, id).email = <<>>
    /\ UniqueIds(m, <<>>) = <<>>

\* two ents are stored under two emails, each found under its own key, after
\* a save and a delete returned nil
C31_MovedWitness ==
    /\ \E h \in Handles : ResIs(h, "save", "ok")
    /\ \E id \in Ids : IsStored(m, id) /\ UniqueIds(m, <<98>>) = <<id>>
    /\ UniqueIds(m, <<97>>) = <<>>

(***************************************************************************)
(* The posting sets of the non-unique indexes of the in-memory storage     *)
(***************************************************************************)
\* no id is held twice
NoDuplicates(ids) == \A i, j \in 1..Len(ids) : ids[i] = ids[j] => i = j

\* the posting set under every key of the compound index "size" holds
\* exactly the ids of the stored rects of this width and height, each once
RectPostingsExact(root) ==
    \A w \in Sizes, h \in Sizes :
        /\ NoDuplicates(RectIdsOfSize(root, w, h))
        /\ \A id \in Ids :
              InSeq(id, RectIdsOfSize(root, w, h))
              <=> /\ IsStoredOf(root, NewRect(0, 0), id)
                  /\ StoredOf(root, NewRect(0, 0), id).e.fields = NewRect(w, h).fields

\* the posting set under every key of the index "kind" holds exactly the ids
\* of the stored accounts of this kind, each once
KindPostingsExact(root) ==
    \A kind \in Kinds :
        /\ NoDuplicates(FindAccountByKind(root, kind))
        /\ \A id \in Ids :
              InSeq(id, FindAccountByKind(root, kind))
              <=> (IsStored(root, id) /\ StoredEnt(root, id).kind = kind)

(***************************************************************************)
(* C32: after any sequence of create, save and delete calls on the         *)
(* in-memory storage the posting set under a key of a non-unique index is  *)
(* exactly the set of the ids of the stored ents whose value encodes to    *)
(* the key: no id is missing, stale or held twice, and a write of one ent  *)
(* removes no posting of another; of compound indexes too.                 *)
(***************************************************************************)
C32_PostingSetsExact ==
    mu = NoOwner
    => /\ program = "enttypes" => RectPostingsExact(m)
       /\ program \in {"own", "shared", "readers"} => KindPostingsExact(m)

\* the same of the index on the one field kind of accounts
C32_KindPostingSetsExact ==
    (mu = NoOwner /\ program \in {"own", "shared", "readers"}) => KindPostingsExact(m)

\* two rects were created, of sizes (0, 0) and (0, 1); the one of size (0, 1)
\* was saved with width 1, the save returned nil: it is still found under the
\* key of (0, 1), and the other rect is no more found under the key of (0, 0)
C32_Witness ==
    \E h \in Handles, id \in Ids, other \in Ids :
        /\ program = "enttypes"
        /\ mu = NoOwner
        /\ ResIs(h, "save", "ok")
        /\ ent[h].id = id
        /\ StoredOf(m, NewRect(0, 0), id).e.fields = NewRect(1, 1).fields
        /\ InSeq(id, RectIdsOfSize(m, 0, 1))
        /\ other # id
        /\ IsStoredOf(m, NewRect(0, 0), other)
        /\ StoredOf(m, NewRect(0, 0), other).e.fields = NewRect(0, 0).fields
        /\ RectIdsOfSize(m, 0, 0) = <<>>

\* two accounts of one kind are stored and both are in the posting set of
\* the kind
C32_KindWitness ==
    /\ program \in {"own", "shared", "readers"}
    /\ mu = NoOwner
    /\ \E h \in Handles : ResIs(h, "save", "ok")
    /\ \E kind \in Kinds : Len(FindAccountByKind(m, kind)) = 2
    /\ KindPostingsExact(m)

(***************************************************************************)
(* C37: on the redis storage the sorted-set member a save or a delete      *)
(* removes for the old value of a non-unique index is byte for byte the    *)
(* member that was added for this ent and value, so that afterwards a      *)
(* lookup by the old value does not return the id of the ent.              *)
(***************************************************************************)
C37_RemovedMemberIsAddedMember ==
    program = "redis"
    => \A h \in Handles : \A i \in 1..Len(call[h].cmds) :
          call[h].cmds[i].name = "ZREM"
          => \E kind \in Kinds :
                call[h].cmds[i].args
                  = makeZADDIdCmd(call[h].cmds[i].key, KindKey(kind), call[h].id).args

\* the transaction of a delete holds a ZREM for the kind of the ent, whose
\* member with the 8 bytes of the id is in the sorted set of the kind index
C37_Witness ==
    \E h \in Handles :
        /\ program = "redis"
        /\ pc[h] = "exec" /\ call[h].op = "delete" /\ ~call[h].dirty
        /\ \E i \in 1..Len(call[h].cmds) : call[h].cmds[i].name = "ZREM"
        /\ InSeq(KindKey(0) \o <<254>> \o Uint64BE(call[h].id),
                 ZMembers(m, makeIndexKey(EntTypeName, EntIndexes[2], KindKey(0))))

\* the delete returned nil, the payload is gone, and the lookup by the kind
\* of the deleted ent returns its id
C37_StaleWitness ==
    \E h \in Handles, id \in Ids :
        /\ program = "redis"
        /\ ResIs(h, "delete", "ok")
        /\ InSeq(id, handed) /\ ~RedisIsStored(m, id)
        /\ InSeq(id, RedisFindAccountByKind(m, 0))

(***************************************************************************)
(* C34: on the redis storage, when another client modifies the watched ent *)
(* key or a watched key of a unique index between the version check and    *)
(* EXEC, so that the server aborts the transaction and writes nothing, the *)
(* create or save returns an error: it never returns nil for a write that  *)
(* was not applied.                                                        *)
(***************************************************************************)
C34_AbortedExecReturnsError ==
    [][\A h \in Handles :
        (/\ program = "redis"
         /\ RedisExec(h)
         /\ call[h].op \in {"create", "save"}
         /\ call[h].dirty)
        => res'[h].err # "ok"]_vars

\* a save passed the version check, and before its EXEC another caller's
\* transaction wrote the ent key it watches
C34_Witness ==
    \E h \in Handles :
        /\ program = "redis"
        /\ pc[h] = "exec" /\ call[h].op = "save" /\ call[h].dirty
        /\ makeEntKey(EntTypeName, call[h].id) \in call[h].watchKeys
        /\ RedisStoredVersion(m, call[h].id) = call[h].version

\* the save whose transaction was aborted returned nil; the caller's ent has
\* the version the call was to store, and the payload holds another caller's
\* email at that version
C34_LostWitness ==
    \E h \in Handles :
        /\ program = "redis"
        /\ ResIs(h, "save", "ok")
        /\ ent[h].storage
        /\ RedisStoredVersion(m, ent[h].id) = ent[h].version
        /\ decodeEnt(ZeroAccount, RootGet(m, makeEntKey(EntTypeName, ent[h].id))).e.email
             # ent[h].email

(***************************************************************************)
(* Two writes that claim one key of the unique index                       *)
(***************************************************************************)
\* the fields LoadById decodes from the hash a redis server holds for an id
RedisStoredEnt(root, id) == decodeEnt(ZeroAccount, RootGet(root, makeEntKey(EntTypeName, id))).e

\* a stored ent other than id holds this email on a redis server
RedisEmailHeldByOther(root, id, email) ==
    \E j \in Ids : j # id /\ RedisIsStored(root, j) /\ RedisStoredEnt(root, j).email = email

\* caller h finishes a create, or a save that changed the email, whose email
\* an ent holds that another caller stored in the meantime
C33_FinishesSecond(h) ==
    /\ call[h].op = "create" \/ ent_Account_f_email \in call[h].changedFields
    /\ \/ /\ program # "redis"
          /\ PutCommit(h)
          /\ EmailHeldByOther(m, call[h].id, ent[h].email)
       \/ /\ program = "redis"
          /\ RedisExec(h)
          /\ call[h].op \in {"create", "save"}
          /\ RedisEmailHeldByOther(m, call[h].id, ent[h].email)

(***************************************************************************)
(* C33: when two callers concurrently create ents (or save changes) that   *)
(* claim the same key of the unique index, at most one of the writes       *)
(* succeeds; the other returns ErrUniqueConflict and leaves the storage as *)
(* it was (no payload of its own), and the key maps to the id of the       *)
(* successful write.                                                       *)
(***************************************************************************)
C33_OneClaimWins ==
    [][\A h \in Handles :
        C33_FinishesSecond(h)
        => /\ res'[h].err = "UniqueConflict"
           /\ m' = m
           /\ ent[h].email # <<>>
              => (IF program = "redis" THEN RedisFindAccountByEmail(m', ent[h].email).id
                  ELSE FindAccountByEmail(m', ent[h].email).id) # call[h].id]_vars

\* the same of the in-memory storage and of keys that are not empty
C33_MemOneClaimWins ==
    [][\A h \in Handles :
        (C33_FinishesSecond(h) /\ program # "redis" /\ ent[h].email # <<>>)
        => /\ res'[h].err = "UniqueConflict"
           /\ m' = m
           /\ FindAccountByEmail(m', ent[h].email).id # call[h].id]_vars

\* the same of the redis storage and of keys that are not empty
C33_RedisOneClaimWins ==
    [][\A h \in Handles :
        (C33_FinishesSecond(h) /\ program = "redis" /\ ent[h].email # <<>>)
        => res'[h].err = "UniqueConflict"]_vars

\* two creates on a redis storage are in flight with the same email "a":
\* both found the key free and queued a SETNX for it
C33_Witness ==
    \E h, g \in Handles :
        /\ program = "redis"
        /\ h # g
        /\ pc[h] = "exec" /\ call[h].op = "create"
        /\ pc[g] = "exec" /\ call[g].op = "create"
        /\ call[h].id # call[g].id
        /\ ent[h].email = <<97>> /\ ent[g].email = <<97>>
        /\ \A c \in {h, g} : \E i \in 1..Len(call[c].cmds) : call[c].cmds[i].name = "SETNX"

\* both creates returned nil; one ent is stored and the key maps to its id,
\* the other caller's ent has an id and version 1 and is not stored
C33_BothReturnedWitness ==
    \E h, g \in Handles :
        /\ program = "redis"
        /\ h # g
        /\ ResIs(h, "create", "ok") /\ ResIs(g, "create", "ok")
        /\ ent[h].email = <<97>> /\ ent[g].email = <<97>>
        /\ ent[h].id # ent[g].id
        /\ RedisIsStored(m, ent[h].id)
        /\ RedisFindAccountByEmail(m, <<97>>).id = ent[h].id
        /\ ent[g].version = 1 /\ ~RedisIsStored(m, ent[g].id)

\* two creates on an in-memory storage overlap with the same email "a"; the
\* first holds the lock
C33_MemWitness ==
    \E h, g \in Handles :
        /\ program # "redis"
        /\ h # g
        /\ pc[h] = "locked" /\ call[h].op = "create"
        /\ pc[g] = "put" /\ call[g].op = "create"
        /\ ent[h].email = <<97>> /\ ent[g].email = <<97>>

(***************************************************************************)
(* Iterators over a storage that holds ents with ids of one and of two     *)
(* base 36 digits                                                          *)
(***************************************************************************)
\* the ids of the accounts the storage may hold: 10 is "a" in base 36, 36 is "10"
IterIds == {1, 2, 10, 36}

\* the account created with an id: its email is the id in base 36
IterAccount(id) == NewAccount(<<>>, FormatUint(id, 36), 0)

RECURSIVE CreatedAll(_, _)
\* the root map after the accounts of a set of ids were created, in order
CreatedAll(root, ids) ==
    IF ids = {} THEN root
    ELSE LET id == CHOOSE i \in ids : \A j \in ids : i <= j
         IN CreatedAll(Created(root, IterAccount(id), id), ids \ {id})

\* a storage in which accounts of some of the ids were created
InitIterIds ==
    /\ \E stored \in SUBSET IterIds :
          /\ m = CreatedAll(EmptyMap, stored)
          /\ handed = [i \in 1..Cardinality(stored) |->
                          CHOOSE id \in stored : Cardinality({j \in stored : j < id}) = i - 1]
    /\ idgen = 36
    /\ mu = NoOwner
    /\ ent = [h \in Handles |-> ZeroAccount]
    /\ pc = [h \in Handles |-> "idle"]
    /\ call = [h \in Handles |-> NoCall]
    /\ res = [h \in Handles |-> NoRes]
    /\ program = "iterids"

\* callers that iterate over the accounts
NextIterIds ==
    \E h \in Handles :
        \/ IterateEnts(h)
        \/ EntIteratorNext(h)

SpecIterIds == InitIterIds /\ [][NextIterIds]_vars

\* the ids of the accounts a root map holds
StoredIterIds(root) == {id \in IterIds : IsStored(root, id)}

\* a list holds exactly the ids of a set, each once
HoldsEachOnce(ids, set) ==
    /\ \A i \in 1..Len(ids) : ids[i] \in set
    /\ \A id \in set : Cardinality({i \in 1..Len(ids) : ids[i] = id}) = 1

\* the iterator of caller h holds exactly the stored ids; the iteration that
\* ended returned no error and has loaded the ent of each stored id once
IteratorExact(h) ==
    /\ pc[h] = "iter" => HoldsEachOnce(call[h].it.ids, StoredIterIds(m))
    /\ (pc[h] = "idle" /\ res[h].op = "iterate")
       => /\ res[h].err = "ok"
          /\ HoldsEachOnce(call[h].ids, StoredIterIds(m))

(***************************************************************************)
(* C35: an id iterator created on the in-memory storage yields exactly the *)
(* ids of the ents of the type that are stored when it is created, each    *)
(* once, for every id (ids of 10 and above included), and the ent iterator *)
(* loads each of these ents without failing.                               *)
(***************************************************************************)
C35_IteratorYieldsStoredIds ==
    program = "iterids" => \A h \in Handles : IteratorExact(h)

\* the same of a storage whose ids are all below 10
C35_SmallIdsIteratorExact ==
    (program = "iterids" /\ StoredIterIds(m) \subseteq 1..9)
    => \A h \in Handles : IteratorExact(h)

\* an iterator was created on a storage that holds the accounts 1 and 10: it
\* holds the ids 1 and 0
C35_Witness ==
    \E h \in Handles :
        /\ program = "iterids"
        /\ StoredIterIds(m) = {1, 10}
        /\ pc[h] = "iter"
        /\ {call[h].it.ids[i] : i \in 1..Len(call[h].it.ids)} = {0, 1}

\* the iteration over the accounts 1 and 2 ended without an error after it
\* loaded both
C35_SmallIdsWitness ==
    \E h \in Handles :
        /\ program = "iterids"
        /\ StoredIterIds(m) = {1, 2}
        /\ ResIs(h, "iterate", "ok")
        /\ HoldsEachOnce(call[h].ids, {1, 2})

\* the iteration over the account 10 ended in the panic of entKey
C35_PanicWitness ==
    \E h \in Handles :
        /\ program = "iterids"
        /\ StoredIterIds(m) = {10}
        /\ ResIs(h, "iterate", "panic: zero id")

\* the iterator over the accounts 10 and 36 read the key of the account 36,
\* "account:10", as the id 10, and Next loaded the account 10 for it
C35_WrongIdWitness ==
    \E h \in Handles :
        /\ program = "iterids"
        /\ StoredIterIds(m) = {10, 36}
        /\ ResIs(h, "next", "ok")
        /\ ent[h].id = 10

(***************************************************************************)
(* Compound keys of string values that hold the separator byte: program is *)
(* "compoundkey".  The fields are "a" and "b" (string) and "w" (int).      *)
(***************************************************************************)
\* "", "x", 0xFF, 0xFF "b" 0xFF, the four bytes \xff, U+00FF 0xFF, and
\* U+00FF followed by the four bytes \xff
SeparatorStrings ==
    {<<>>, <<120>>, <<255>>, <<255, 98, 255>>, <<92, 120, 102, 102>>,
     <<195, 191, 255>>, <<195, 191, 92, 120, 102, 102>>}

\* the values of the three fields of an ent
CompoundTuples ==
    {<<StrField(<<97>>, a), StrField(<<98>>, b), IntField(<<119>>, w)>> :
        a \in SeparatorStrings, b \in SeparatorStrings, w \in {0, 1}}

InitCompoundKey ==
    /\ idgen = 0
    /\ mu = NoOwner
    /\ m = EmptyMap
    /\ ent = [h \in Handles |-> ZeroAccount]
    /\ pc = [h \in Handles |-> IF h = Writer THEN "args" ELSE "idle"]
    /\ \E fs \in CompoundTuples :
          call = [h \in Handles |->
                     IF h = Writer THEN [NoCall EXCEPT !.ents = fs, !.cmds = FieldsCalls(fs)]
                     ELSE NoCall]
    /\ res = [h \in Handles |-> NoRes]
    /\ handed = <<>>
    /\ program = "compoundkey"

NextCompoundKey == CallEncodeKey(Writer)

SpecCompoundKey == InitCompoundKey /\ [][NextCompoundKey]_vars

\* the key of a tuple of field values
CompoundKeyOf(fs) == IndexKeyEncode(Len(fs), FieldsCalls(fs)).b

\* no string of the tuple holds the byte 0xFF
NoSeparator(fs) ==
    \A i \in 1..Len(fs) : \A j \in 1..Len(fs[i].bytes) : fs[i].bytes[j] # 255

(***************************************************************************)
(* C36: in a compound key a string value that holds the separator byte     *)
(* 0xFF is escaped, so that the encoding is injective: two tuples of field *)
(* values that differ in at least one field never encode to the same key.  *)
(***************************************************************************)
C36_CompoundKeyInjective ==
    (program = "compoundkey" /\ pc[Writer] = "returned")
    => \A fs \in CompoundTuples :
          fs # call[Writer].ents => CompoundKeyOf(fs) # call[Writer].json.bytes

\* the same of the tuples whose strings hold no byte 0xFF
C36_NoSeparatorInjective ==
    (program = "compoundkey" /\ pc[Writer] = "returned" /\ NoSeparator(call[Writer].ents))
    => \A fs \in CompoundTuples :
          (fs # call[Writer].ents /\ NoSeparator(fs))
          => CompoundKeyOf(fs) # call[Writer].json.bytes

\* a = 0xFF "b" 0xFF, b = "" and w = 0 were encoded: the bytes 0xFF of a are
\* in the key as they are, and the key is that of a = "", b = 0xFF "b" 0xFF
C36_Witness ==
    /\ program = "compoundkey"
    /\ pc[Writer] = "returned"
    /\ res[Writer].err = "ok"
    /\ call[Writer].ents
         = <<StrField(<<97>>, <<255, 98, 255>>), StrField(<<98>>, <<>>), IntField(<<119>>, 0)>>
    /\ call[Writer].json.bytes
         = <<97, 255, 255, 98, 255, 255, 98, 255, 255, 119, 255, 48>>
    /\ call[Writer].json.bytes
         = CompoundKeyOf(<<StrField(<<97>>, <<>>), StrField(<<98>>, <<255, 98, 255>>),
                           IntField(<<119>>, 0)>>)

\* a string with the code point U+00FF and a byte 0xFF is escaped, to the
\* value of the string that holds the four bytes \xff in its place
C36_EscapedWitness ==
    /\ program = "compoundkey"
    /\ pc[Writer] = "returned"
    /\ call[Writer].ents[1].bytes = <<195, 191, 255>>
    /\ call[Writer].ents[2].bytes = <<>>
    /\ call[Writer].json.bytes
         = <<97, 255, 195, 191, 92, 120, 102, 102, 255, 98, 255, 255, 119, 255>>
            \o FormatUint(call[Writer].ents[3].int, 36)
    /\ call[Writer].json.bytes
         = CompoundKeyOf([call[Writer].ents EXCEPT
                             ![1].bytes = <<195, 191, 92, 120, 102, 102>>])

\* two strings without a byte 0xFF and an int were encoded
C36_NoSeparatorWitness ==
    /\ program = "compoundkey"
    /\ pc[Writer] = "returned"
    /\ res[Writer].err = "ok"
    /\ call[Writer].ents[1].bytes = <<92, 120, 102, 102>>
    /\ call[Writer].ents[2].bytes = <<120>>
    /\ call[Writer].json.bytes
         = <<97, 255, 92, 120, 102, 102, 255, 98, 255, 120, 255, 119, 255>>
            \o FormatUint(call[Writer].ents[3].int, 36)

(***************************************************************************)
(* C38: the delete of an ent whose payload is absent from the storage (it  *)
(* was deleted through another handle) returns ErrNotFound and changes no  *)
(* index entry, on the in-memory and on the redis storage.                 *)
(***************************************************************************)
C38_DeleteOfAbsentNotFound ==
    [][\A h \in Handles :
        /\ (/\ program # "redis"
            /\ DeleteEnt(h)
            /\ ent[h].storage
            /\ ~IsStored(m, ent[h].id))
           => (res'[h].err = "NotFound" /\ m' = m)
        /\ (/\ program = "redis"
            /\ RedisDelete(h)
            /\ ent[h].storage
            /\ ~RedisIsStored(m, ent[h].id))
           => (res'[h].op = "delete" /\ res'[h].err = "NotFound" /\ pc'[h] = "idle")]_vars

\* the part of it that does not depend on the error: no delete of an absent
\* ent on a redis storage changes the keyspace
C38_RedisDeleteOfAbsentWritesNothing ==
    [][\A h \in Handles :
        (/\ program = "redis"
         /\ RedisExec(h)
         /\ call[h].op = "delete"
         /\ ~RedisIsStored(m, call[h].id))
        => m' = m]_vars

\* on a redis storage an ent was deleted through one handle, and the delete
\* through the other handle went on to its transaction and returned nil
C38_Witness ==
    \E h, g \in Handles :
        /\ h # g
        /\ program = "redis"
        /\ ResIs(g, "delete", "ok")
        /\ ResIs(h, "delete", "ok")
        /\ handed = <<1>>
        /\ ~RedisIsStored(m, 1)

\* on the in-memory storage the ent was deleted through one handle, and the
\* delete through the other handle returned the error of the JSON reader
C38_MemWitness ==
    \E h, g \in Handles :
        /\ h # g
        /\ program = "shared"
        /\ ResIs(g, "delete", "ok")
        /\ ResIs(h, "delete", "JsonError")
        /\ ent[h].id = 1
        /\ ~IsStored(m, 1)

\* or it returned nil, if the reader reports no error for an empty input
C38_MemNilWitness ==
    /\ program = "shared"
    /\ \A h \in Handles : ResIs(h, "delete", "ok")
    /\ ~IsStored(m, 1)

====
